---- MODULE Spec2Model ----
(***************************************************************************)
(* State-machine model of the resilience utilities of the Discord bot:     *)
(*   - ApiManager  (src/src/functions/utils/apiManager.ts)                  *)
(*   - RateLimiter (src/src/functions/utils/sanitizer.ts)                   *)
(* Times are milliseconds, as in the source (Date.now()).                   *)
(***************************************************************************)
EXTENDS Integers, Sequences, FiniteSets, TLC

VARIABLES
    configs,          \* ApiManager.configs : name -> InternalApiConfig
    circuitBreakers,  \* ApiManager.circuitBreakers : "name:url" -> CircuitBreakerState
    cache,            \* ApiManager.cache : "name:path" -> {data, timestamp, ttl}
    req,              \* one record per request() activation (locals + position)
    stored,           \* history: per (api, path), the last successful fetch made with a ttl
    consec,           \* history: per breaker key, failed outcomes in a row on that endpoint
    lastReg,          \* history: the registerApi call that was the last ApiManager step
    now,              \* Date.now()
    limits,           \* RateLimiter.limits : "limitKey:identifier" -> {count, resetTime}
    rlConfigs,        \* RateLimiter.configs : limitKey -> {maxRequests, windowMs}
    rlLast,           \* the last checkLimit call: its arguments and its result
    rlHist,           \* history: per window, the calls allowed in it and its policy
    recoveryActions,  \* ErrorRecoveryManager.recoveryActions
    isRecovering,     \* ErrorRecoveryManager.isRecovering
    recoveryHistory,  \* ErrorRecoveryManager.recoveryHistory
    erInit,           \* ErrorRecoveryManager.initialize has run
    erCall,           \* one record per handleError() activation
    lastCheck,        \* HealthChecker.lastCheck
    hcCall,           \* one record per performHealthCheck() activation
    cmConfig,         \* ConfigManager.config: null, or its guilds
    cmIsLoading,      \* ConfigManager.isLoading
    cmFile,           \* bot_notifications.json: whether it exists, is JSON, and its guilds
    cmReads,          \* history: number of reads of the config file
    cmReady,          \* the ready event has been emitted
    botGuilds,        \* client.guilds.cache: the guilds the bot is in
    cmEvents,         \* history: number of guild events and bot_notification commands so far
    cmLeft,           \* history: guilds whose guildDelete handler has completed
    cmCall,           \* one record per ConfigManager call
    cmWrites,         \* history: how many commands have had their saveConfig write the file
    sharedApiCache,   \* fetchWithSharedCache: endpoint -> [data, timestamp]
    wfLastOk,         \* history: endpoint -> time and data of its latest successful fetch
    wfCall,           \* one record per fetchWithSharedCache() activation
    csJar,            \* the csrf-token cookie the client holds, or NoToken
    csLast,           \* the last csrfProtection call: its arguments and its effect
    rbCall            \* the retryWithBackoff() activation (locals, position, history)

apiVars == <<configs, circuitBreakers, cache, req, stored, consec, lastReg>>
rlVars  == <<limits, rlConfigs, rlLast, rlHist>>
erVars  == <<recoveryActions, isRecovering, recoveryHistory, erInit, erCall>>
vars    == <<configs, circuitBreakers, cache, req, stored, consec, lastReg, now,
             limits, rlConfigs, rlLast, rlHist,
             recoveryActions, isRecovering, recoveryHistory, erInit, erCall,
             lastCheck, hcCall,
             cmConfig, cmIsLoading, cmFile, cmReads, cmReady, botGuilds, cmEvents, cmLeft, cmCall,
             cmWrites, sharedApiCache, wfLastOk, wfCall, csJar, csLast, rbCall>>
hcVars  == <<lastCheck, hcCall>>
cmVars  == <<cmConfig, cmIsLoading, cmFile, cmReads, cmReady, botGuilds, cmEvents, cmLeft, cmCall,
             cmWrites>>
\* everything but the clock and the variables of one component
wfVars  == <<sharedApiCache, wfLastOk, wfCall>>
csVars  == <<csJar, csLast>>
exceptApi == <<rlVars, erVars, hcVars, cmVars, wfVars, csVars, rbCall>>
exceptRl  == <<apiVars, erVars, hcVars, cmVars, wfVars, csVars, rbCall>>
exceptEr  == <<apiVars, rlVars, hcVars, cmVars, wfVars, csVars, rbCall>>
exceptHc  == <<apiVars, rlVars, erVars, cmVars, wfVars, csVars, rbCall>>
exceptCm  == <<apiVars, rlVars, erVars, hcVars, wfVars, csVars, rbCall>>
exceptWf  == <<apiVars, rlVars, erVars, hcVars, cmVars, csVars, rbCall>>
exceptCs  == <<apiVars, erVars, hcVars, cmVars, wfVars, rbCall>>
exceptRb  == <<apiVars, rlVars, erVars, hcVars, cmVars, wfVars, csVars>>

(***************************************************************************)
(* Bounds of the model                                                      *)
(***************************************************************************)
\* the clock runs from 0 to MaxTicks * TickMs
MaxTicks == 6
MaxConcTicks == 2
\* the clock of the caching specification runs from 0 to MaxCacheTicks * TickMs
MaxCacheTicks == 5
\* the clock of the rate limiter specification runs from 0 to MaxRateTicks * RateTickMs
MaxRateTicks == 2
\* longest clock value explored by the retry/backoff specification, in ticks
MaxRetryTicks == 36
\* the clock of the health check specification runs from 0 to MaxHealthTicks * TickMs
MaxHealthTicks == 2
\* a recovery pass starts only while the recovery history has at most this many entries
MaxRecoveryHistory == 1

(***************************************************************************)
(* Program constants                                                        *)
(***************************************************************************)
DefaultTimeout   == 10000
DefaultRetries   == 3
DefaultThreshold == 5
DefaultResetTime == 60000
BackoffBase      == 1000
BackoffCap       == 10000
\* an optional numeric field that was left out (undefined)
Undefined        == -1

TickMs  == BackoffBase
MaxTime == MaxTicks * TickMs
MaxCacheTime == MaxCacheTicks * TickMs
MaxRetryTime == MaxRetryTicks * TickMs
MaxConcTime == MaxConcTicks * TickMs

(***************************************************************************)
(* Generic helpers                                                          *)
(***************************************************************************)
Min(a, b) == IF a < b THEN a ELSE b
Max(a, b) == IF a > b THEN a ELSE b

\* Map.set(k, v)
MapSet(m, k, v) == [x \in (DOMAIN m) \cup {k} |-> IF x = k THEN v ELSE m[x]]
\* Map.has(k)
MapHas(m, k) == k \in DOMAIN m
EmptyMap == [x \in {} |-> 0]

\* JavaScript  x || d  on an optional number: undefined and 0 are falsy
OrDefault(x, d) == IF x = Undefined \/ x = 0 THEN d ELSE x

\* String.prototype.startsWith
StartsWith(s, prefix) ==
    /\ Len(s) >= Len(prefix)
    /\ SubSeq(s, 1, Len(prefix)) = prefix

\* template strings `${apiName}:${endpoint.url}` and `${apiName}:${path}`
CircuitKey(apiName, url) == apiName \o ":" \o url
CacheKey(apiName, path)  == apiName \o ":" \o path

(***************************************************************************)
(* ApiManager: pure parts                                                   *)
(***************************************************************************)
NoConfig == [name |-> "", endpoints |-> <<>>, defaultTimeout |-> 0,
             defaultRetries |-> 0, circuitBreakerThreshold |-> 0,
             circuitBreakerResetTime |-> 0]

\* variant: the fallbacks are pushed first and the primary URL last
BuildEndpoints_PrimaryLast(config) ==
    [i \in 1..Len(config.fallbackUrls) |->
          [url |-> config.fallbackUrls[i], priority |-> (i - 1) + 2,
           timeout |-> config.timeout, retries |-> config.retries]]
    \o <<[url |-> config.baseUrl, priority |-> 1,
          timeout |-> config.timeout, retries |-> config.retries]>>

\* the endpoint array built by registerApi
BuildEndpoints(config) ==
    <<[url |-> config.baseUrl, priority |-> 1,
       timeout |-> config.timeout, retries |-> config.retries]>>
    \o [i \in 1..Len(config.fallbackUrls) |->
          [url |-> config.fallbackUrls[i], priority |-> (i - 1) + 2,
           timeout |-> config.timeout, retries |-> config.retries]]

\* the InternalApiConfig built by registerApi
BuildApiConfig(name, config) ==
    [name |-> name,
     endpoints |-> BuildEndpoints(config),
     defaultTimeout |-> OrDefault(config.timeout, DefaultTimeout),
     defaultRetries |-> OrDefault(config.retries, DefaultRetries),
     circuitBreakerThreshold |-> OrDefault(config.circuitBreakerThreshold, DefaultThreshold),
     circuitBreakerResetTime |-> OrDefault(config.circuitBreakerResetTime, DefaultResetTime)]

FreshBreaker == [failures |-> 0, lastFailure |-> 0, isOpen |-> FALSE]

\* variant: registerApi starts from an empty breaker map
InitBreakers_OnlyNew(brk, name, endpoints, i) ==
    [k \in {CircuitKey(name, endpoints[j].url) : j \in 1..Len(endpoints)} |-> FreshBreaker]

\* variant: a breaker that exists already is kept as it is
RECURSIVE InitBreakers_KeepExisting(_, _, _, _)
InitBreakers_KeepExisting(brk, name, endpoints, i) ==
    IF i > Len(endpoints) THEN brk
    ELSE InitBreakers_KeepExisting(
             IF MapHas(brk, CircuitKey(name, endpoints[i].url)) THEN brk
             ELSE MapSet(brk, CircuitKey(name, endpoints[i].url), FreshBreaker),
             name, endpoints, i + 1)

\* circuitBreakers after the forEach of registerApi
RECURSIVE InitBreakers(_, _, _, _)
InitBreakers(brk, name, endpoints, i) ==
    IF i > Len(endpoints) THEN brk
    ELSE InitBreakers(MapSet(brk, CircuitKey(name, endpoints[i].url), FreshBreaker),
                      name, endpoints, i + 1)

\* makeRequest: const retries = endpoint.retries || config.defaultRetries
EffectiveRetries(endpoint, config) == OrDefault(endpoint.retries, config.defaultRetries)

\* variant: the cap is forgotten
BackoffDelay_NoCap(attempt) == BackoffBase * (2 ^ attempt)

\* makeRequest: Math.min(1000 * Math.pow(2, attempt), 10000)
BackoffDelay(attempt) == Min(BackoffBase * (2 ^ attempt), BackoffCap)

\* variant: the reset window ends one instant early (>= for >)
isCircuitOpen_ResetAtEqual(state, config, t) ==
    IF ~state.isOpen THEN [open |-> FALSE, state |-> state]
    ELSE IF t - state.lastFailure >= config.circuitBreakerResetTime
         THEN [open |-> FALSE, state |-> [state EXCEPT !.isOpen = FALSE, !.failures = 0]]
         ELSE [open |-> TRUE, state |-> state]

\* variant: the lazy reset closes the breaker and keeps the failure count
isCircuitOpen_KeepFailures(state, config, t) ==
    IF ~state.isOpen THEN [open |-> FALSE, state |-> state]
    ELSE IF t - state.lastFailure > config.circuitBreakerResetTime
         THEN [open |-> FALSE, state |-> [state EXCEPT !.isOpen = FALSE]]
         ELSE [open |-> TRUE, state |-> state]

\* isCircuitOpen: the answer and the (possibly mutated) state object
isCircuitOpen(state, config, t) ==
    IF ~state.isOpen THEN [open |-> FALSE, state |-> state]
    ELSE IF t - state.lastFailure > config.circuitBreakerResetTime
         THEN [open |-> FALSE, state |-> [state EXCEPT !.isOpen = FALSE, !.failures = 0]]
         ELSE [open |-> TRUE, state |-> state]

\* variant: the breaker opens one failure late (> for >=)
recordFailure_Above(brk, circuitKey, config, t) ==
    LET s1 == [brk[circuitKey] EXCEPT !.failures = @ + 1, !.lastFailure = t]
        s2 == IF s1.failures > config.circuitBreakerThreshold
              THEN [s1 EXCEPT !.isOpen = TRUE] ELSE s1
    IN  [brk EXCEPT ![circuitKey] = s2]

\* recordFailure
recordFailure(brk, circuitKey, config, t) ==
    LET s1 == [brk[circuitKey] EXCEPT !.failures = @ + 1, !.lastFailure = t]
        s2 == IF s1.failures >= config.circuitBreakerThreshold
              THEN [s1 EXCEPT !.isOpen = TRUE] ELSE s1
    IN  [brk EXCEPT ![circuitKey] = s2]

\* resetCircuitBreaker
resetCircuitBreaker(brk, circuitKey) ==
    [brk EXCEPT ![circuitKey] = [@ EXCEPT !.failures = 0, !.isOpen = FALSE]]

\* clearCache(apiName): the keys that survive; `if (apiName)` is false for the
\* empty string, which clears the whole cache like a call without an argument
clearCacheKeys(c, apiName) ==
    IF apiName = "" THEN {}
    ELSE {k \in DOMAIN c : ~StartsWith(k, apiName \o ":")}


(***************************************************************************)
(* ApiManager: inputs                                                       *)
(***************************************************************************)
ApiNames == {"warframe", "aux"}
Paths    == {"/fissures"}
Payloads == {"d1", "d2"}
Errors   == {"E1", "E2"}
Outcomes == Payloads \cup Errors
CacheTtls == {0, 1000, 2000}
Procs    == {"p1", "p2"}
SeqProcs == {"p1"}

\* src/index.ts: the registration the program makes at startup
StartupConfig ==
    [baseUrl |-> "https://api.warframestat.us/pc",
     fallbackUrls |-> <<"https://api.warframestat.us/pc">>,
     timeout |-> 10000, retries |-> 3,
     circuitBreakerThreshold |-> Undefined,
     circuitBreakerResetTime |-> Undefined]

\* registrations explored besides the startup one
RegInputs ==
    { [baseUrl |-> "u1", fallbackUrls |-> <<"u2">>, timeout |-> Undefined,
       retries |-> 1, circuitBreakerThreshold |-> 1, circuitBreakerResetTime |-> 1000],
      [baseUrl |-> "u1", fallbackUrls |-> <<"u2", "u3">>, timeout |-> 5000,
       retries |-> 1, circuitBreakerThreshold |-> 2, circuitBreakerResetTime |-> 2000] }

\* registrations explored by the caching specification
CacheRegInputs ==
    { [baseUrl |-> "u1", fallbackUrls |-> <<"u2">>, timeout |-> Undefined,
       retries |-> 1, circuitBreakerThreshold |-> 1, circuitBreakerResetTime |-> 1000] }

\* the registration explored with overlapping request() activations: its
\* endpoint list differs from the one registered at startup
ConcRegInputs ==
    { [baseUrl |-> "u1", fallbackUrls |-> <<>>, timeout |-> Undefined,
       retries |-> 1, circuitBreakerThreshold |-> 1, circuitBreakerResetTime |-> 500] }
ConcOutcomes == {"d1", "E1"}

\* registrations of one endpoint explored for the breaker state: two with the same
\* threshold and one that leaves the threshold at 0
BreakerRegInputs ==
    { [baseUrl |-> "u1", fallbackUrls |-> <<>>, timeout |-> Undefined,
       retries |-> 1, circuitBreakerThreshold |-> 2, circuitBreakerResetTime |-> 500],
      [baseUrl |-> "u1", fallbackUrls |-> <<>>, timeout |-> Undefined,
       retries |-> 1, circuitBreakerThreshold |-> 2, circuitBreakerResetTime |-> 1000],
      [baseUrl |-> "u1", fallbackUrls |-> <<>>, timeout |-> Undefined,
       retries |-> 1, circuitBreakerThreshold |-> 0, circuitBreakerResetTime |-> 500] }
ConcTtls == {1000}

\* registrations explored by the retry/backoff specification: one endpoint, every
\* retry count from "left out" and 0 up to 6
RetryRegInputs ==
    { [baseUrl |-> "u1", fallbackUrls |-> <<>>, timeout |-> Undefined,
       retries |-> n, circuitBreakerThreshold |-> Undefined,
       circuitBreakerResetTime |-> Undefined] : n \in {Undefined} \cup (0..6) }

(***************************************************************************)
(* ApiManager: one activation of request()                                  *)
(***************************************************************************)
IdleReq ==
    [pc |-> "idle", apiName |-> "", path |-> "", cacheTtl |-> 0,
     config |-> NoConfig, idx |-> 0, attempt |-> 0,
     lastError |-> "null", mrLastError |-> "null", wakeAt |-> 0,
     result |-> "none", error |-> "none",
     log |-> <<>>, lastOut |-> "none", startNow |-> 0, startBrk |-> EmptyMap, startCache |-> EmptyMap,
     startStored |-> EmptyMap]

InFlight(p) == req[p].pc \in {"fetch", "sleep"}
Settled(p)  == req[p].pc \in {"done", "thrown"}
\* every settled request() activation has been observed by its caller
NoneSettled == \A p \in Procs : ~Settled(p)
\* no request() activation exists
Quiet == \A p \in Procs : req[p].pc = "idle"

\* one entry of the activation's history
Event(kind, ep, attempt, out, delay, at, pre) ==
    [kind |-> kind, ep |-> ep, attempt |-> attempt, out |-> out, delay |-> delay,
     at |-> at, pre |-> pre]

\* request, lines 98-106: walk the endpoints from index i, consulting each breaker,
\* up to the first endpoint that is not skipped
RECURSIVE Walk(_, _, _, _, _)
Walk(brk, config, apiName, i, t) ==
    IF i > Len(config.endpoints) THEN [brk |-> brk, idx |-> i, events |-> <<>>]
    ELSE LET key  == CircuitKey(apiName, config.endpoints[i].url)
             c    == isCircuitOpen(brk[key], config, t)
             brk2 == [brk EXCEPT ![key] = c.state]
         IN  IF c.open
             THEN LET rest == Walk(brk2, config, apiName, i + 1, t)
                  IN  [rest EXCEPT !.events =
                          <<Event("skip", i, 0, "none", 0, t, brk[key])>> \o @]
             ELSE [brk |-> brk2, idx |-> i,
                   events |-> <<Event("fetch", i, 0, "pending", 0, t, brk[key])>>]

\* variant: the endpoint error is dropped
ThrownError_Generic(lastError) == "All endpoints failed"

\* request, line 139: throw lastError || new Error(`All endpoints failed ...`)
ThrownError(lastError) ==
    IF lastError = "null" THEN "All endpoints failed" ELSE lastError

\* variant: the last-resort entry must still be fresh
Exhausted_FreshOnly(r, c) ==
    LET cacheKey == CacheKey(r.apiName, r.path)
    IN  IF MapHas(c, cacheKey) /\ r.startNow - c[cacheKey].timestamp < c[cacheKey].ttl
        THEN [r EXCEPT !.pc = "done", !.result = c[cacheKey].data]
        ELSE [r EXCEPT !.pc = "thrown", !.error = ThrownError(r.lastError)]

\* request, lines 132-139: every endpoint failed or was skipped
Exhausted(r, c) ==
    LET cacheKey == CacheKey(r.apiName, r.path)
    IN  IF MapHas(c, cacheKey)
        THEN [r EXCEPT !.pc = "done", !.result = c[cacheKey].data]
        ELSE [r EXCEPT !.pc = "thrown", !.error = ThrownError(r.lastError)]

\* variant: a missing configuration is treated as one without endpoints
NotFound_NoEndpoints(r, c) == Exhausted(r, c)

\* request, lines 80-83: no configuration under that name
NotFound(r, c) ==
    [r EXCEPT !.pc = "thrown", !.error = "API configuration not found"]

\* request, lines 98-139, from endpoint index i on: either a fetch is issued or the
\* call ends
ContinueFrom(r, brk, c, i, t) ==
    LET w == Walk(brk, r.config, r.apiName, i, t)
        r1 == [r EXCEPT !.log = @ \o w.events]
    IN  [brk |-> w.brk,
         r   |-> IF w.idx <= Len(r.config.endpoints)
                 THEN [r1 EXCEPT !.pc = "fetch", !.idx = w.idx, !.attempt = 0,
                                 !.mrLastError = "null"]
                 ELSE Exhausted([r1 EXCEPT !.idx = w.idx], c)]

\* variant: freshness is judged by the caller's ttl, not the stored one
FreshHit_CallerTtl(c, cacheKey, cacheTtl, t) ==
    /\ cacheTtl > 0
    /\ MapHas(c, cacheKey)
    /\ t - c[cacheKey].timestamp < cacheTtl

\* request, lines 85-93: is the call answered from a fresh cache entry
FreshHit(c, cacheKey, cacheTtl, t) ==
    /\ cacheTtl > 0
    /\ MapHas(c, cacheKey)
    /\ t - c[cacheKey].timestamp < c[cacheKey].ttl

\* variant: the result is stored whatever the ttl
cacheStore_Always(c, cacheKey, cacheTtl, result, t) ==
    MapSet(c, cacheKey, [data |-> result, timestamp |-> t, ttl |-> cacheTtl])

\* request, lines 114-121: the cache after a success
cacheStore(c, cacheKey, cacheTtl, result, t) ==
    IF cacheTtl > 0
    THEN MapSet(c, cacheKey, [data |-> result, timestamp |-> t, ttl |-> cacheTtl])
    ELSE c

\* history: the fetch issued last has settled
SetLastOut(log, out) ==
    [log EXCEPT ![Len(log)].out = IF out \in Payloads THEN "ok" ELSE "fail"]

\* history: no registerApi call was the last step
NoReg == [done |-> FALSE, name |-> "", config |-> NoConfig,
          configs |-> EmptyMap, circuitBreakers |-> EmptyMap]

(***************************************************************************)
(* ApiManager: actions                                                      *)
(***************************************************************************)
\* registerApi(name, config)
RegisterApi(name, config) ==
    LET apiConfig == BuildApiConfig(name, config)
    IN  /\ configs' = MapSet(configs, name, apiConfig)
        /\ circuitBreakers' = InitBreakers(circuitBreakers, name, apiConfig.endpoints, 1)
        /\ consec' = [k \in DOMAIN circuitBreakers' |->
                         IF \E i \in 1..Len(apiConfig.endpoints) :
                                k = CircuitKey(name, apiConfig.endpoints[i].url)
                         THEN 0 ELSE consec[k]]
        /\ lastReg' = [done |-> TRUE, name |-> name, config |-> config,
                       configs |-> configs, circuitBreakers |-> circuitBreakers]
        /\ UNCHANGED <<cache, req, stored, now, exceptApi>>

\* request(apiName, path, options, cacheTtl) up to its first await
RequestStart(p, apiName, path, cacheTtl) ==
    /\ req[p].pc = "idle"
    /\ LET cacheKey == CacheKey(apiName, path)
           base == [IdleReq EXCEPT !.apiName = apiName, !.path = path,
                                   !.cacheTtl = cacheTtl, !.startNow = now,
                                   !.startBrk = circuitBreakers,
                                   !.startCache = cache,
                                   !.startStored = stored]
       IN  IF ~MapHas(configs, apiName)
           THEN /\ req' = [req EXCEPT ![p] = NotFound(base, cache)]
                /\ UNCHANGED circuitBreakers
           ELSE IF FreshHit(cache, cacheKey, cacheTtl, now)
           THEN /\ req' = [req EXCEPT ![p] =
                       [base EXCEPT !.pc = "done", !.config = configs[apiName],
                                    !.result = cache[cacheKey].data]]
                /\ UNCHANGED circuitBreakers
           ELSE LET n == ContinueFrom([base EXCEPT !.config = configs[apiName]],
                                      circuitBreakers, cache, 1, now)
                IN  /\ req' = [req EXCEPT ![p] = n.r]
                    /\ circuitBreakers' = n.brk
    /\ lastReg' = NoReg
    /\ UNCHANGED <<configs, cache, stored, consec, now, exceptApi>>

\* the awaited fetch of makeRequest settles with `out`; the activation runs on to
\* its next await or to its end
FetchReturns(p, out) ==
    /\ req[p].pc = "fetch"
    /\ LET r == [req[p] EXCEPT !.log = SetLastOut(@, out), !.lastOut = out]
           endpoint == r.config.endpoints[r.idx]
           circuitKey == CircuitKey(r.apiName, endpoint.url)
           cacheKey == CacheKey(r.apiName, r.path)
       IN  IF out \in Payloads
           THEN /\ circuitBreakers' = resetCircuitBreaker(circuitBreakers, circuitKey)
                /\ cache' = cacheStore(cache, cacheKey, r.cacheTtl, out, now)
                /\ stored' = IF r.cacheTtl > 0
                             THEN MapSet(stored, <<r.apiName, r.path>>,
                                         [data |-> out, at |-> now, ttl |-> r.cacheTtl])
                             ELSE stored
                /\ consec' = [consec EXCEPT ![circuitKey] = 0]
                /\ req' = [req EXCEPT ![p] = [r EXCEPT !.pc = "done", !.result = out]]
           ELSE IF r.attempt < EffectiveRetries(endpoint, r.config)
           THEN /\ req' = [req EXCEPT ![p] =
                       [r EXCEPT !.pc = "sleep", !.mrLastError = out,
                                 !.wakeAt = now + BackoffDelay(r.attempt),
                                 !.log = Append(@, Event("wait", r.idx, r.attempt, "none",
                                                BackoffDelay(r.attempt), now, FreshBreaker))]]
                /\ UNCHANGED <<circuitBreakers, cache, stored, consec>>
           ELSE LET brk1 == recordFailure(circuitBreakers, circuitKey, r.config, now)
                    n == ContinueFrom([r EXCEPT !.mrLastError = out, !.lastError = out],
                                      brk1, cache, r.idx + 1, now)
                IN  /\ req' = [req EXCEPT ![p] = n.r]
                    /\ circuitBreakers' = n.brk
                    /\ consec' = [consec EXCEPT ![circuitKey] = @ + 1]
                    /\ UNCHANGED <<cache, stored>>
    /\ lastReg' = NoReg
    /\ UNCHANGED <<configs, now, exceptApi>>

\* the backoff timer of makeRequest fires (not before its delay has passed) and the
\* next attempt's fetch is issued
SleepDone(p, limit) ==
    /\ req[p].pc = "sleep"
    /\ Max(now, req[p].wakeAt) <= limit
    /\ now' = Max(now, req[p].wakeAt)
    /\ req' = [req EXCEPT ![p] =
           [@ EXCEPT !.pc = "fetch", !.attempt = @ + 1,
                     !.log = Append(@, Event("fetch", req[p].idx, req[p].attempt + 1,
                                             "pending", 0, now', FreshBreaker))]]
    /\ lastReg' = NoReg
    /\ UNCHANGED <<configs, circuitBreakers, cache, stored, consec, exceptApi>>

\* the caller has received the result or the error: the activation is gone
Return(p) ==
    /\ Settled(p)
    /\ req' = [req EXCEPT ![p] = IdleReq]
    /\ UNCHANGED <<configs, circuitBreakers, cache, stored, consec, lastReg, now, exceptApi>>

\* clearCache(apiName)
ClearCacheOf(apiName) ==
    /\ cache' = [k \in clearCacheKeys(cache, apiName) |-> cache[k]]
    /\ stored' = [k \in {x \in DOMAIN stored : apiName # "" /\ x[1] # apiName} |-> stored[k]]
    /\ UNCHANGED <<configs, circuitBreakers, req, consec, lastReg, now, exceptApi>>

\* clearCache()
ClearCacheAll ==
    /\ cache' = EmptyMap
    /\ stored' = EmptyMap
    /\ UNCHANGED <<configs, circuitBreakers, req, consec, lastReg, now, exceptApi>>

\* time passes
Tick(limit) ==
    /\ now + TickMs <= limit
    /\ \A p \in Procs : ~Settled(p)
    /\ now' = now + TickMs
    /\ UNCHANGED <<apiVars, exceptApi>>

(***************************************************************************)
(* Specifications                                                           *)
(***************************************************************************)
InitApi ==
    /\ configs = MapSet(EmptyMap, "warframe", BuildApiConfig("warframe", StartupConfig))
    /\ circuitBreakers = InitBreakers(EmptyMap, "warframe",
                                      BuildEndpoints(StartupConfig), 1)
    /\ cache = EmptyMap
    /\ req = [p \in Procs |-> IdleReq]
    /\ stored = EmptyMap
    /\ consec = [k \in DOMAIN circuitBreakers |-> 0]
    /\ lastReg = NoReg
    /\ now = 0

(***************************************************************************)
(* RateLimiter                                                              *)
(***************************************************************************)
\* the policies registered when the module is loaded
CommandLimit == [maxRequests |-> 10, windowMs |-> 60000]
ApiLimit     == [maxRequests |-> 30, windowMs |-> 60000]
StrictLimit  == [maxRequests |-> 3, windowMs |-> 60000]

\* policies registered later, under the key "burst"
RlPolicies == {[maxRequests |-> 1, windowMs |-> 30000],
               [maxRequests |-> 2, windowMs |-> 60000]}
\* the checkLimit calls explored: <<identifier, limitKey>>
RlCalls == {<<"user1", "command">>, <<"user1", "burst">>, <<"user2", "burst">>,
            <<"user1", "nokey">>}

\* the clock of this part advances by half the window of the default policies
RateTickMs  == CommandLimit.windowMs \div 2
MaxRateTime == MaxRateTicks * RateTickMs

\* template string `${limitKey}:${identifier}`
LimitKeyOf(limitKey, identifier) == limitKey \o ":" \o identifier

\* a checkLimit result; `full` tells whether remaining and resetTime are present
RlResult(allowed, full, remaining, resetTime) ==
    [allowed |-> allowed, full |-> full, remaining |-> remaining, resetTime |-> resetTime]

\* variant: the limit is tested with > for >=
checkLimit_OffByOne(lims, cfgs, identifier, limitKey, t) ==
    IF ~MapHas(cfgs, limitKey)
    THEN [limits |-> lims, result |-> RlResult(TRUE, FALSE, 0, 0)]
    ELSE LET config == cfgs[limitKey]
             key == LimitKeyOf(limitKey, identifier)
         IN  IF ~MapHas(lims, key) \/ t >= lims[key].resetTime
             THEN [limits |-> MapSet(lims, key, [count |-> 1, resetTime |-> t + config.windowMs]),
                   result |-> RlResult(TRUE, TRUE, config.maxRequests - 1, t + config.windowMs)]
             ELSE IF lims[key].count > config.maxRequests
             THEN [limits |-> lims,
                   result |-> RlResult(FALSE, TRUE, 0, lims[key].resetTime)]
             ELSE [limits |-> [lims EXCEPT ![key].count = @ + 1],
                   result |-> RlResult(TRUE, TRUE, config.maxRequests - (lims[key].count + 1),
                                       lims[key].resetTime)]

\* variant: a call under an unknown key is counted under a default window
checkLimit_UnknownCounted(lims, cfgs, identifier, limitKey, t) ==
    IF ~MapHas(cfgs, limitKey)
    THEN [limits |-> MapSet(lims, LimitKeyOf(limitKey, identifier),
                            [count |-> 1, resetTime |-> t + CommandLimit.windowMs]),
          result |-> RlResult(TRUE, FALSE, 0, 0)]
    ELSE LET config == cfgs[limitKey]
             key == LimitKeyOf(limitKey, identifier)
         IN  IF ~MapHas(lims, key) \/ t >= lims[key].resetTime
             THEN [limits |-> MapSet(lims, key, [count |-> 1, resetTime |-> t + config.windowMs]),
                   result |-> RlResult(TRUE, TRUE, config.maxRequests - 1, t + config.windowMs)]
             ELSE IF lims[key].count >= config.maxRequests
             THEN [limits |-> lims,
                   result |-> RlResult(FALSE, TRUE, 0, lims[key].resetTime)]
             ELSE [limits |-> [lims EXCEPT ![key].count = @ + 1],
                   result |-> RlResult(TRUE, TRUE, config.maxRequests - (lims[key].count + 1),
                                       lims[key].resetTime)]

\* variant: a denied call starts the window anew
checkLimit_DeniedExtends(lims, cfgs, identifier, limitKey, t) ==
    IF ~MapHas(cfgs, limitKey)
    THEN [limits |-> lims, result |-> RlResult(TRUE, FALSE, 0, 0)]
    ELSE LET config == cfgs[limitKey]
             key == LimitKeyOf(limitKey, identifier)
         IN  IF ~MapHas(lims, key) \/ t >= lims[key].resetTime
             THEN [limits |-> MapSet(lims, key, [count |-> 1, resetTime |-> t + config.windowMs]),
                   result |-> RlResult(TRUE, TRUE, config.maxRequests - 1, t + config.windowMs)]
             ELSE IF lims[key].count >= config.maxRequests
             THEN [limits |-> [lims EXCEPT ![key].resetTime = t + config.windowMs],
                   result |-> RlResult(FALSE, TRUE, 0, lims[key].resetTime)]
             ELSE [limits |-> [lims EXCEPT ![key].count = @ + 1],
                   result |-> RlResult(TRUE, TRUE, config.maxRequests - (lims[key].count + 1),
                                       lims[key].resetTime)]

\* checkLimit: the limits map afterwards and the value returned
checkLimit(lims, cfgs, identifier, limitKey, t) ==
    IF ~MapHas(cfgs, limitKey)
    THEN [limits |-> lims, result |-> RlResult(TRUE, FALSE, 0, 0)]
    ELSE LET config == cfgs[limitKey]
             key == LimitKeyOf(limitKey, identifier)
         IN  IF ~MapHas(lims, key) \/ t >= lims[key].resetTime
             THEN [limits |-> MapSet(lims, key, [count |-> 1, resetTime |-> t + config.windowMs]),
                   result |-> RlResult(TRUE, TRUE, config.maxRequests - 1, t + config.windowMs)]
             ELSE IF lims[key].count >= config.maxRequests
             THEN [limits |-> lims,
                   result |-> RlResult(FALSE, TRUE, 0, lims[key].resetTime)]
             ELSE [limits |-> [lims EXCEPT ![key].count = @ + 1],
                   result |-> RlResult(TRUE, TRUE, config.maxRequests - (lims[key].count + 1),
                                       lims[key].resetTime)]

\* variant: a window is deleted only after its reset time (> for >=)
cleanup_StrictlyAfter(lims, t) ==
    [k \in {x \in DOMAIN lims : ~(t > lims[x].resetTime)} |-> lims[k]]

\* cleanup: the windows that are kept
cleanup(lims, t) == [k \in {x \in DOMAIN lims : ~(t >= lims[x].resetTime)} |-> lims[k]]

NoCall == [identifier |-> "", limitKey |-> "", known |-> FALSE,
           result |-> RlResult(FALSE, FALSE, 0, 0)]

\* history of the window a call falls in: the window starts with the first call at
\* or after the end of the one before and lasts the policy's windowMs
HistAfter(h, key, config, t, allowed) ==
    IF ~MapHas(h, key) \/ t >= h[key].ends
    THEN MapSet(h, key, [allowed |-> IF allowed THEN 1 ELSE 0,
                         policy |-> config, ends |-> t + config.windowMs,
                         steady |-> TRUE])
    ELSE [h EXCEPT ![key] = [@ EXCEPT !.allowed = IF allowed THEN @ + 1 ELSE @,
                                      !.steady = @ /\ (config = h[key].policy)]]

\* registerLimit(key, config)
RegisterLimit(key, config) ==
    /\ rlConfigs' = MapSet(rlConfigs, key, config)
    /\ UNCHANGED <<limits, rlLast, rlHist, exceptRl, now>>

\* checkLimit(identifier, limitKey)
CheckLimit(identifier, limitKey) ==
    LET c == checkLimit(limits, rlConfigs, identifier, limitKey, now)
    IN  /\ limits' = c.limits
        /\ rlLast' = [identifier |-> identifier, limitKey |-> limitKey,
                      known |-> MapHas(rlConfigs, limitKey), result |-> c.result]
        /\ rlHist' = IF MapHas(rlConfigs, limitKey)
                     THEN HistAfter(rlHist, LimitKeyOf(limitKey, identifier),
                                    rlConfigs[limitKey], now, c.result.allowed)
                     ELSE rlHist
        /\ UNCHANGED <<rlConfigs, exceptRl, now>>

\* the interval timer of startCleanupInterval fires
Cleanup ==
    /\ limits' = cleanup(limits, now)
    /\ UNCHANGED <<rlConfigs, rlLast, rlHist, exceptRl, now>>

\* time passes
TickRate ==
    /\ now + RateTickMs <= MaxRateTime
    /\ now' = now + RateTickMs
    /\ UNCHANGED <<apiVars, exceptApi>>

InitRl ==
    /\ limits = EmptyMap
    /\ rlConfigs = MapSet(MapSet(MapSet(EmptyMap, "command", CommandLimit),
                                 "api", ApiLimit), "strict", StrictLimit)
    /\ rlLast = NoCall
    /\ rlHist = EmptyMap

(***************************************************************************)
(* ErrorRecoveryManager (src/src/functions/utils/healthCheck.ts)            *)
(***************************************************************************)
HistoryCap == 100

\* String.prototype.includes
Includes(s, sub) ==
    \E i \in 1..(Len(s) - Len(sub) + 1) : SubSeq(s, i, i + Len(sub) - 1) = sub

\* the errors handed to handleError; hasMessage = FALSE is a thrown value that has no
\* message property (the uncaughtException hook passes on whatever was thrown)
ErInputs ==
    { [hasMessage |-> TRUE, message |-> "WebSocket closed"],
      [hasMessage |-> TRUE, message |-> "out of memory, connection lost"],
      [hasMessage |-> TRUE, message |-> "boom"],
      [hasMessage |-> FALSE, message |-> ""] }

\* error.message as it is logged and recorded
MessageOf(error) == IF error.hasMessage THEN error.message ELSE "undefined"

\* the actions of setupDefaultRecoveryActions, in the order they are added
DefaultActions ==
    << [name |-> "discord_reconnect", priority |-> 1, cond |-> "connection"],
       [name |-> "memory_cleanup", priority |-> 2, cond |-> "memory"],
       [name |-> "file_system_recovery", priority |-> 3, cond |-> "file"] >>

\* actions added by callers of addRecoveryAction; their predicate is () => true
CustomActions ==
    { [name |-> "custom_first", priority |-> 0, cond |-> "always"],
      [name |-> "custom_tie", priority |-> 2, cond |-> "always"] }

\* action.condition(error): "true", "false" or "throws"; heapHigh is the outcome of
\* heapUsed / heapTotal > 0.9 at that moment
Condition(cond, error, heapHigh) ==
    IF cond = "always" THEN "true"
    ELSE IF ~error.hasMessage THEN "throws"
    ELSE LET m == error.message
             yes == CASE cond = "connection" ->
                            Includes(m, "WebSocket") \/ Includes(m, "connection")
                                \/ Includes(m, "ECONNRESET")
                      [] cond = "memory" ->
                            Includes(m, "memory") \/ Includes(m, "heap") \/ heapHigh
                      [] cond = "file" ->
                            Includes(m, "ENOENT") \/ Includes(m, "EACCES")
                                \/ Includes(m, "file system")
         IN  IF yes THEN "true" ELSE "false"

\* recoveryActions.filter(action => action.condition(error))
RECURSIVE FilterActions(_, _, _)
FilterActions(actions, error, heapHigh) ==
    IF actions = <<>> THEN [threw |-> FALSE, list |-> <<>>]
    ELSE LET c == Condition(Head(actions).cond, error, heapHigh)
             rest == FilterActions(Tail(actions), error, heapHigh)
         IN  IF c = "throws" \/ rest.threw THEN [threw |-> TRUE, list |-> <<>>]
             ELSE [threw |-> FALSE,
                   list |-> IF c = "true" THEN <<Head(actions)>> \o rest.list
                            ELSE rest.list]

\* one step of a stable sort: a goes behind every element that is not greater
RECURSIVE InsertByPriority(_, _)
InsertByPriority(sorted, a) ==
    IF sorted = <<>> THEN <<a>>
    ELSE IF Head(sorted).priority <= a.priority
         THEN <<Head(sorted)>> \o InsertByPriority(Tail(sorted), a)
         ELSE <<a>> \o sorted

\* variant: the list is left in insertion order
SortByPriority_Unsorted(list) == list

\* recoveryActions.sort((a, b) => a.priority - b.priority), a stable sort
RECURSIVE SortByPriority(_)
SortByPriority(list) ==
    IF list = <<>> THEN <<>>
    ELSE InsertByPriority(SortByPriority(SubSeq(list, 1, Len(list) - 1)), list[Len(list)])

\* recordRecovery
recordRecovery(history, error, action, success, t) ==
    LET h == Append(history, [timestamp |-> t, error |-> error, action |-> action,
                              success |-> success])
    IN  IF Len(h) > HistoryCap THEN SubSeq(h, Len(h) - HistoryCap + 1, Len(h)) ELSE h

\* variant: the flag is not looked at
RecoveryBusy_Never(flag) == FALSE

\* handleError, line 498: if (this.isRecovering)
RecoveryBusy(flag) == flag

\* variant: the flag is cleared at the end of the try block, not in a finally
ReleasedFlag_NotOnThrow(outcome) == outcome = "threw"

\* handleError, lines 530-532: finally { this.isRecovering = false }, however the
\* try block was left ("threw": a predicate threw, "none": no action applies,
\* "ran": the last action has settled)
ReleasedFlag(outcome) == FALSE

Handlers == {"h1", "h2"}

\* a handleError call has ended and its caller has not yet looked at the outcome
ErSettled(h) == erCall[h].pc \in {"dropped", "threw", "done"}
ErQuiet == \A h \in Handlers : ~ErSettled(h)

IdleCall == [pc |-> "idle", error |-> [hasMessage |-> FALSE, message |-> ""],
             known |-> <<>>, heapHigh |-> FALSE,
             applicable |-> <<>>, i |-> 0, evaluated |-> FALSE, ran |-> <<>>]

\* ErrorRecoveryManager.initialize(client)
InitializeRecovery ==
    /\ ~erInit
    /\ erInit' = TRUE
    /\ recoveryActions' =
           SortByPriority(Append(
               SortByPriority(Append(
                   SortByPriority(Append(recoveryActions, DefaultActions[1])),
                   DefaultActions[2])),
               DefaultActions[3]))
    /\ UNCHANGED <<isRecovering, recoveryHistory, erCall, exceptEr, now>>

\* addRecoveryAction(action)
AddRecoveryAction(action) ==
    /\ \A i \in 1..Len(recoveryActions) : recoveryActions[i] # action
    /\ recoveryActions' = SortByPriority(Append(recoveryActions, action))
    /\ UNCHANGED <<isRecovering, recoveryHistory, erInit, erCall, exceptEr, now>>

\* handleError(error, context) up to its first await or to its end
HandleError(h, error, heapHigh) ==
    /\ erCall[h].pc = "idle"
    /\ ErQuiet
    /\ Len(recoveryHistory) <= MaxRecoveryHistory
    /\ LET base == [IdleCall EXCEPT !.error = error, !.known = recoveryActions,
                                    !.heapHigh = heapHigh]
           f == FilterActions(recoveryActions, error, heapHigh)
       IN  IF RecoveryBusy(isRecovering)
           THEN /\ erCall' = [erCall EXCEPT ![h] = [base EXCEPT !.pc = "dropped"]]
                /\ UNCHANGED isRecovering
           ELSE IF f.threw
           THEN /\ erCall' = [erCall EXCEPT ![h] = [base EXCEPT !.pc = "threw"]]
                /\ isRecovering' = ReleasedFlag("threw")
           ELSE IF f.list = <<>>
           THEN /\ erCall' = [erCall EXCEPT ![h] =
                       [base EXCEPT !.pc = "done", !.evaluated = TRUE]]
                /\ isRecovering' = ReleasedFlag("none")
           ELSE /\ erCall' = [erCall EXCEPT ![h] =
                       [base EXCEPT !.pc = "running", !.evaluated = TRUE,
                                    !.applicable = f.list, !.i = 1]]
                /\ isRecovering' = TRUE
    /\ UNCHANGED <<recoveryActions, recoveryHistory, erInit, exceptEr, now>>

\* the awaited action.action() returns (ok) or throws; the pass runs on to the next
\* action or to its end
ActionSettles(h, ok) ==
    /\ erCall[h].pc = "running"
    /\ ErQuiet
    /\ LET c == erCall[h]
           a == c.applicable[c.i]
           last == c.i = Len(c.applicable)
       IN  /\ recoveryHistory' =
                  recordRecovery(recoveryHistory, MessageOf(c.error), a.name, ok, now)
           /\ erCall' = [erCall EXCEPT ![h] =
                  [c EXCEPT !.ran = Append(@, [name |-> a.name, priority |-> a.priority,
                                               success |-> ok]),
                            !.i = @ + 1,
                            !.pc = IF last THEN "done" ELSE "running"]]
           /\ isRecovering' = IF last THEN ReleasedFlag("ran") ELSE isRecovering
    /\ UNCHANGED <<recoveryActions, erInit, exceptEr, now>>

\* the promise of handleError has been observed by its caller
HandleErrorReturns(h) ==
    /\ ErSettled(h)
    /\ erCall' = [erCall EXCEPT ![h] = IdleCall]
    /\ UNCHANGED <<recoveryActions, isRecovering, recoveryHistory, erInit, exceptEr, now>>

\* clearHistory()
ClearHistory ==
    /\ recoveryHistory # <<>>
    /\ recoveryHistory' = <<>>
    /\ UNCHANGED <<recoveryActions, isRecovering, erInit, erCall, exceptEr, now>>

InitEr ==
    /\ recoveryActions = <<>>
    /\ isRecovering = FALSE
    /\ recoveryHistory = <<>>
    /\ erInit = FALSE
    /\ erCall = [h \in Handlers |-> IdleCall]

(***************************************************************************)
(* HealthChecker (src/src/functions/utils/healthCheck.ts)                   *)
(***************************************************************************)
MaxHealthTime == MaxHealthTicks * TickMs

\* what the checks read from their environment
Pings == {-1, 100, 600}
HeapPercents == {50, 80, 95}
DiscordInputs == {[ready |-> FALSE, ping |-> 0]} \cup {[ready |-> TRUE, ping |-> g] : g \in Pings}

\* registrations explored by the health check specification
HealthRegInputs ==
    { [baseUrl |-> "u1", fallbackUrls |-> <<>>, timeout |-> Undefined,
       retries |-> 1, circuitBreakerThreshold |-> 2, circuitBreakerResetTime |-> Undefined] }

CheckResult(name, status) == [name |-> name, status |-> status]

\* checkDiscordConnection
checkDiscordConnection(d) ==
    CheckResult("discord_connection",
                IF ~d.ready THEN "unhealthy"
                ELSE IF d.ping < 0 THEN "unhealthy"
                ELSE IF d.ping > 500 THEN "degraded"
                ELSE "healthy")

\* checkFileSystem: ok tells whether write, read and unlink went through and the
\* content read was the content written
checkFileSystem(ok) ==
    CheckResult("file_system", IF ok THEN "healthy" ELSE "unhealthy")

\* ApiManager.getHealthStatus: per registered API, one entry per endpoint
getHealthStatus(cfgs, brk) ==
    [apiName \in DOMAIN cfgs |->
        [i \in 1..Len(cfgs[apiName].endpoints) |->
            LET state == brk[CircuitKey(apiName, cfgs[apiName].endpoints[i].url)]
            IN  [url |-> cfgs[apiName].endpoints[i].url,
                 priority |-> cfgs[apiName].endpoints[i].priority,
                 failures |-> state.failures, isOpen |-> state.isOpen,
                 lastFailure |-> state.lastFailure]]]

\* checkExternalApis
checkExternalApis(apiHealth) ==
    LET hasUnhealthy == \E a \in DOMAIN apiHealth : \E i \in 1..Len(apiHealth[a]) :
                            apiHealth[a][i].isOpen
        hasDegraded == \E a \in DOMAIN apiHealth : \E i \in 1..Len(apiHealth[a]) :
                            ~apiHealth[a][i].isOpen /\ apiHealth[a][i].failures > 0
    IN  CheckResult("external_apis",
                    IF hasUnhealthy THEN "unhealthy"
                    ELSE IF hasDegraded THEN "degraded" ELSE "healthy")

\* checkMemoryUsage
checkMemoryUsage(usagePercent) ==
    CheckResult("memory_usage",
                IF usagePercent > 90 THEN "unhealthy"
                ELSE IF usagePercent > 75 THEN "degraded" ELSE "healthy")

\* checkDiskSpace
checkDiskSpace == CheckResult("disk_space", "healthy")

CountStatus(checks, status) ==
    Cardinality({i \in 1..Len(checks) : checks[i].status = status})

\* variant: degraded is looked for first
Overall_DegradedFirst(checks) ==
    IF CountStatus(checks, "degraded") > 0 THEN "degraded"
    ELSE IF CountStatus(checks, "unhealthy") > 0 THEN "unhealthy"
    ELSE "healthy"

\* performHealthCheck, lines 70-80
Overall(checks) ==
    IF CountStatus(checks, "unhealthy") > 0 THEN "unhealthy"
    ELSE IF CountStatus(checks, "degraded") > 0 THEN "degraded"
    ELSE "healthy"

Checkers == {"k1"}
NoHealth == [overall |-> "none", timestamp |-> 0, checks |-> <<>>, uptime |-> 0]
IdleCheck == [pc |-> "idle", checks |-> <<>>, result |-> NoHealth]
HcQuiet == \A k \in Checkers : hcCall[k].pc # "done"

\* performHealthCheck up to the first file operation of checkFileSystem
PerformHealthCheck(k, d) ==
    /\ hcCall[k].pc = "idle"
    /\ HcQuiet
    /\ hcCall' = [hcCall EXCEPT ![k] =
           [IdleCheck EXCEPT !.pc = "write", !.checks = <<checkDiscordConnection(d)>>]]
    /\ UNCHANGED <<lastCheck, exceptHc, now>>

\* the rest of performHealthCheck once checkFileSystem has its result
\* process.uptime(): the seconds since the process started, the process having
\* started when the clock read 0
ProcessUptime(t) == t \div 1000

FinishHealthCheck(k, fsOk, usagePercent) ==
    LET checks == hcCall[k].checks \o
                    << checkFileSystem(fsOk),
                       checkExternalApis(getHealthStatus(configs, circuitBreakers)),
                       checkMemoryUsage(usagePercent),
                       checkDiskSpace >>
        result == [overall |-> Overall(checks), timestamp |-> now, checks |-> checks,
                   uptime |-> ProcessUptime(now)]
    IN  /\ lastCheck' = result
        /\ hcCall' = [hcCall EXCEPT ![k] =
               [@ EXCEPT !.pc = "done", !.checks = checks, !.result = result]]

\* an awaited file operation of checkFileSystem (write, read, unlink) settles; ok:
\* it went through and, for the last one, the content read was the content written
FileOpSettles(k, ok, usagePercent) ==
    /\ hcCall[k].pc \in {"write", "read", "unlink"}
    /\ HcQuiet
    /\ IF ~ok THEN FinishHealthCheck(k, FALSE, usagePercent)
       ELSE IF hcCall[k].pc = "unlink" THEN FinishHealthCheck(k, TRUE, usagePercent)
       ELSE /\ hcCall' = [hcCall EXCEPT ![k].pc = IF @ = "write" THEN "read" ELSE "unlink"]
            /\ UNCHANGED lastCheck
    /\ UNCHANGED <<exceptHc, now>>

\* the caller has received the SystemHealth
HealthCheckReturns(k) ==
    /\ hcCall[k].pc = "done"
    /\ hcCall' = [hcCall EXCEPT ![k] = IdleCheck]
    /\ UNCHANGED <<lastCheck, exceptHc, now>>

InitHc ==
    /\ lastCheck = NoHealth
    /\ hcCall = [k \in Checkers |-> IdleCheck]

(***************************************************************************)
(* ConfigManager (src/src/functions/configManager.ts) and the guild events  *)
(***************************************************************************)
Guilds == {"g1", "g2"}
MaxGuildEvents == 3
MaxCommands == 2
ConfigCallers == <<"c1", "c2", "c3">>
CallerSet == {ConfigCallers[i] : i \in 1..Len(ConfigCallers)}

\* this.config === null
NullConfig == [isNull |-> TRUE, guilds |-> EmptyMap]
Loaded(guilds) == [isNull |-> FALSE, guilds |-> guilds]
\* json: the text of the file is what JSON.stringify gave for some config
MissingFile == [exists |-> FALSE, json |-> FALSE, guilds |-> EmptyMap]
FileWith(guilds) == [exists |-> TRUE, json |-> TRUE, guilds |-> guilds]
\* text that JSON.parse rejects: the pieces of two writes, the beginning of
\* one, or nothing
CorruptFile == [exists |-> TRUE, json |-> FALSE, guilds |-> EmptyMap]
DefaultEntry == [bot_notification |-> "disabled", channelid |-> "", enabled |-> FALSE]
EnabledEntry == [bot_notification |-> "enabled", channelid |-> "ch1", enabled |-> TRUE]

\* what an earlier run of the bot can have left in bot_notifications.json
FileContents ==
    { MapSet(MapSet(EmptyMap, "g1", EnabledEntry), "g2", DefaultEntry) }

\* entry: the guild config a bot_notification command writes; rivals: what the
\* writeFile calls that were pending together with the call's own were given
IdleCm == [pc |-> "idle", op |-> "", guildId |-> "", early |-> FALSE, load |-> "none",
           before |-> EmptyMap, seen |-> {}, snapshot |-> EmptyMap, result |-> "none",
           entry |-> DefaultEntry, rivals |-> {}]

\* the first idle caller
FreeCaller(c) ==
    /\ cmCall[c].pc = "idle"
    /\ \A i, j \in 1..Len(ConfigCallers) :
          (ConfigCallers[j] = c /\ i < j) => cmCall[ConfigCallers[i]].pc # "idle"

CmSettled(c) == cmCall[c].pc \in {"done", "threw"}
CmQuiet == \A c \in CallerSet : ~CmSettled(c)

\* saveConfig, line 62: JSON.stringify(this.config) is evaluated when writeFile is
\* called, and that string is what the call writes
WrittenGuilds(snapshot, current) == snapshot

\* the call has a writeFile pending
WritePending(call) == call.pc \in {"saving", "loadsave"}

\* the calls after a step (new, old before it): a writeFile that begins in the
\* step and the ones pending then write the same file at the same time
Overlapping(old, new) ==
    LET started == {c \in CallerSet : WritePending(new[c]) /\ old[c].pc # new[c].pc}
    IN  [c \in CallerSet |->
            IF c \in started
            THEN [new[c] EXCEPT !.rivals =
                     {new[o].snapshot : o \in {x \in CallerSet \ {c} : WritePending(new[x])}}]
            ELSE IF WritePending(new[c])
            THEN [new[c] EXCEPT !.rivals = @ \cup {new[o].snapshot : o \in started}]
            ELSE new[c]]

\* the file when a writeFile has resolved: what the call was given when no other
\* writeFile overlapped it; with overlapping calls, which fs.writeFile does not
\* order, the text of any of them or a mixture that is no JSON
WriteOutcomes(call, current) ==
    {FileWith(WrittenGuilds(call.snapshot, current))}
        \cup {FileWith(snapshot) : snapshot \in call.rivals}
        \cup (IF call.rivals \ {call.snapshot} # {} THEN {CorruptFile} ELSE {})

\* the file when a writeFile has rejected: as it was when the file could not
\* be opened for writing; created or cut to nothing, or holding the beginning
\* of the text, when the failure came after it was opened
FailedWriteOutcomes(file) == {file, CorruptFile}

\* the guilds object after the synchronous part of an operation that follows
\* loadConfig; bg is client.guilds.cache at that moment
BodyOf(op, guildId, guilds, bg) ==
    CASE op = "get" -> guilds
      [] op = "add" ->
            IF MapHas(guilds, guildId) THEN guilds ELSE MapSet(guilds, guildId, DefaultEntry)
      [] op = "remove" ->
            [x \in DOMAIN guilds \ {guildId} |-> guilds[x]]
      [] op = "init" ->
            LET added == [x \in DOMAIN guilds \cup bg |->
                             IF MapHas(guilds, x) THEN guilds[x] ELSE DefaultEntry]
            IN  [x \in {y \in DOMAIN added : y \in bg} |-> added[x]]

\* the channels an administrator can pick, and the entry add and edit write
Channels == {"ch1", "ch2"}
EnabledOn(ch) == [bot_notification |-> "enabled", channelid |-> ch, enabled |-> TRUE]
CommandOps == {"cmd_add", "cmd_edit", "cmd_remove"}

\* the guildConfig argument of the command's setGuildConfig call
EntryOf(action, ch) == IF action = "cmd_remove" THEN DefaultEntry ELSE EnabledOn(ch)

\* existingConfig?.enabled, existingConfig being config.guilds[guildId] || null
ExistingEnabled(guilds, guildId) == MapHas(guilds, guildId) /\ guilds[guildId].enabled

\* setGuildConfig, lines 89-92
hasChanges(guilds, guildId, guildConfig) ==
    \/ ~MapHas(guilds, guildId)
    \/ guilds[guildId].bot_notification # guildConfig.bot_notification
    \/ guilds[guildId].channelid # guildConfig.channelid
    \/ guilds[guildId].enabled # guildConfig.enabled

\* the guilds object after the synchronous part of setGuildConfig
setGuildConfig(guildId, guildConfig, guilds) ==
    IF hasChanges(guilds, guildId, guildConfig)
    THEN MapSet(guilds, guildId, guildConfig)
    ELSE guilds

\* variant: add overwrites an entry that is enabled already
Accepts_AddAlways(action, guilds, guildId) ==
    action = "cmd_add" \/ ExistingEnabled(guilds, guildId)

\* the bot_notification command goes on to setGuildConfig: add when the entry is
\* not enabled, edit and remove when it is
Accepts(action, guilds, guildId) ==
    IF action = "cmd_add" THEN ~ExistingEnabled(guilds, guildId)
    ELSE ExistingEnabled(guilds, guildId)

\* the command when its getGuildConfig has returned: the check of
\* existingConfig?.enabled; it has called setGuildConfig (checked), which is to
\* go on after its await of loadConfig, or it has replied and returned
CommandCheck(call, guilds) ==
    IF Accepts(call.op, guilds, call.guildId)
    THEN [call EXCEPT !.load = "config", !.pc = "checked"]
    ELSE [call EXCEPT !.load = "config", !.pc = "done", !.result = "rejected"]

\* the call goes on after loadConfig has returned this.config to it
AfterLoad(call, config, bg) ==
    IF config.isNull
    THEN [config |-> config, call |-> [call EXCEPT !.pc = "threw", !.load = "null"]]
    ELSE IF call.op \in CommandOps
    THEN [config |-> config, call |-> CommandCheck(call, config.guilds)]
    ELSE LET guilds == config.guilds
             new == BodyOf(call.op, call.guildId, guilds, bg)
             c1 == IF call.op = "init"
                   THEN [call EXCEPT !.load = "config", !.before = guilds, !.seen = bg]
                   ELSE [call EXCEPT !.load = "config"]
         IN  [config |-> Loaded(new),
              call |-> IF new # guilds
                       THEN [c1 EXCEPT !.pc = "saving", !.snapshot = new]
                       ELSE [c1 EXCEPT !.pc = "done",
                                       !.result = IF call.op = "get" /\ MapHas(guilds, call.guildId)
                                                  THEN guilds[call.guildId].bot_notification
                                                  ELSE c1.result]]

\* variant: a call that finds a load in progress starts a load of its own
LoadInProgress_Ignored(flag) == FALSE

\* loadConfig, line 30: if (this.isLoading)
LoadInProgress(flag) == flag

\* a ConfigManager operation is called: loadConfig up to its first await, and the
\* operation itself when the config is loaded already
EnterCall(c, call, bg) ==
        IF cmConfig # NullConfig
        THEN LET a == AfterLoad(call, cmConfig, bg)
             IN  /\ cmConfig' = a.config
                 /\ cmCall' = Overlapping(cmCall, [cmCall EXCEPT ![c] = a.call])
                 /\ UNCHANGED <<cmIsLoading, cmReads>>
        ELSE IF LoadInProgress(cmIsLoading)
        THEN /\ cmCall' = [cmCall EXCEPT ![c] = [call EXCEPT !.pc = "poll"]]
             /\ UNCHANGED <<cmConfig, cmIsLoading, cmReads>>
        ELSE /\ cmCall' = [cmCall EXCEPT ![c] = [call EXCEPT !.pc = "reading"]]
             /\ cmIsLoading' = TRUE
             /\ cmReads' = cmReads + 1
             /\ UNCHANGED cmConfig

Enter(c, op, guildId, bg) ==
    EnterCall(c, [IdleCm EXCEPT !.op = op, !.guildId = guildId,
                                !.early = (cmConfig = NullConfig)], bg)

\* bot_notifications.json as an earlier run left it
PreviousRunLeft(content) ==
    /\ ~cmReady /\ cmFile = MissingFile
    /\ cmFile' = FileWith(content)
    /\ UNCHANGED <<cmConfig, cmIsLoading, cmReads, cmReady, botGuilds, cmEvents, cmLeft, cmCall,
                   cmWrites, exceptCm, now>>

\* the ready event: its handler calls initializeGuildDefaults(client)
Ready(c, bg) ==
    /\ ~cmReady /\ FreeCaller(c) /\ CmQuiet
    /\ cmReady' = TRUE
    /\ botGuilds' = bg
    /\ Enter(c, "init", "", bg)
    /\ UNCHANGED <<cmFile, cmEvents, cmLeft, cmWrites, exceptCm, now>>

\* the guildCreate event: its handler calls addGuildDefault(guild.id)
GuildCreate(c, g) ==
    /\ cmReady /\ FreeCaller(c) /\ CmQuiet
    /\ g \notin botGuilds /\ cmEvents < MaxGuildEvents
    /\ botGuilds' = botGuilds \cup {g}
    /\ cmEvents' = cmEvents + 1
    /\ cmLeft' = cmLeft \ {g}
    /\ Enter(c, "add", g, botGuilds')
    /\ UNCHANGED <<cmFile, cmReady, cmWrites, exceptCm, now>>

\* the guildDelete event: its handler calls removeGuildConfig(guild.id)
GuildDelete(c, g) ==
    /\ cmReady /\ FreeCaller(c) /\ CmQuiet
    /\ g \in botGuilds /\ cmEvents < MaxGuildEvents
    /\ botGuilds' = botGuilds \ {g}
    /\ cmEvents' = cmEvents + 1
    /\ Enter(c, "remove", g, botGuilds')
    /\ UNCHANGED <<cmFile, cmReady, cmLeft, cmWrites, exceptCm, now>>

\* the bot_notification command with action add, edit or remove and a valid
\* channel, in guild g, when its deferReply has resolved: getGuildConfig and,
\* once that has returned, the check of existingConfig?.enabled
BotNotification(c, action, g, ch) ==
    /\ cmReady /\ FreeCaller(c) /\ CmQuiet
    /\ cmEvents < MaxCommands
    /\ cmEvents' = cmEvents + 1
    /\ EnterCall(c, [IdleCm EXCEPT !.op = action, !.guildId = g,
                                   !.early = (cmConfig = NullConfig),
                                   !.entry = EntryOf(action, ch)], botGuilds)
    /\ UNCHANGED <<cmFile, cmReady, botGuilds, cmLeft, cmWrites, exceptCm, now>>

\* the setGuildConfig call of a command that has passed its check goes on after
\* its await of loadConfig: hasChanges, the assignment, and saveConfig up to
\* its writeFile
SetGuildConfig(c) ==
    /\ cmCall[c].pc = "checked" /\ CmQuiet
    /\ LET guilds == cmConfig.guilds
           new == setGuildConfig(cmCall[c].guildId, cmCall[c].entry, guilds)
           c1 == [cmCall[c] EXCEPT !.before = guilds, !.result = "set"]
       IN  /\ cmConfig' = Loaded(new)
           /\ cmCall' = Overlapping(cmCall, [cmCall EXCEPT ![c] =
                  IF new # guilds THEN [c1 EXCEPT !.pc = "saving", !.snapshot = new]
                  ELSE [c1 EXCEPT !.pc = "done"]])
    /\ UNCHANGED <<cmIsLoading, cmFile, cmReads, cmReady, botGuilds, cmEvents, cmLeft,
                   cmWrites, exceptCm, now>>

\* getGuildConfig(guildId)
GetGuildConfig(c, g) ==
    /\ cmReady /\ FreeCaller(c) /\ CmQuiet
    /\ Enter(c, "get", g, botGuilds)
    /\ UNCHANGED <<cmFile, cmReady, botGuilds, cmEvents, cmLeft, cmWrites, exceptCm, now>>

\* loadConfig: the awaited fs.readFile settles; ok = the file was read and parsed
ReadSettles(c, ok) ==
    /\ cmCall[c].pc = "reading" /\ CmQuiet
    /\ IF ok /\ cmFile.exists /\ cmFile.json
       THEN LET a == AfterLoad(cmCall[c], Loaded(cmFile.guilds), botGuilds)
            IN  /\ cmConfig' = a.config
                /\ cmIsLoading' = FALSE
                /\ cmCall' = Overlapping(cmCall, [cmCall EXCEPT ![c] = a.call])
       ELSE /\ cmConfig' = Loaded(EmptyMap)
            /\ cmCall' = Overlapping(cmCall, [cmCall EXCEPT ![c] =
                   [@ EXCEPT !.pc = "loadsave", !.snapshot = EmptyMap]])
            /\ UNCHANGED cmIsLoading
    /\ UNCHANGED <<cmFile, cmReads, cmReady, botGuilds, cmEvents, cmLeft, cmWrites, exceptCm, now>>

\* loadConfig: the awaited saveConfig of the default config settles
LoadSaveSettles(c, ok) ==
    /\ cmCall[c].pc = "loadsave" /\ CmQuiet
    /\ cmIsLoading' = FALSE
    /\ IF ok
       THEN LET a == AfterLoad(cmCall[c], cmConfig, botGuilds)
            IN  /\ cmFile' \in WriteOutcomes(cmCall[c], cmConfig.guilds)
                /\ cmConfig' = a.config
                /\ cmCall' = Overlapping(cmCall, [cmCall EXCEPT ![c] = a.call])
       ELSE /\ cmFile' \in FailedWriteOutcomes(cmFile)
            /\ cmCall' = [cmCall EXCEPT ![c] = [@ EXCEPT !.pc = "threw", !.load = "threw"]]
            /\ UNCHANGED cmConfig
    /\ UNCHANGED <<cmReads, cmReady, botGuilds, cmEvents, cmLeft, cmWrites, exceptCm, now>>

\* loadConfig: the 10 ms timer of the wait loop fires and isLoading is false
PollWakes(c) ==
    /\ cmCall[c].pc = "poll" /\ CmQuiet
    /\ ~cmIsLoading
    /\ LET a == AfterLoad(cmCall[c], cmConfig, botGuilds)
       IN  /\ cmConfig' = a.config
           /\ cmCall' = Overlapping(cmCall, [cmCall EXCEPT ![c] = a.call])
    /\ UNCHANGED <<cmIsLoading, cmFile, cmReads, cmReady, botGuilds, cmEvents, cmLeft, cmWrites, exceptCm, now>>

\* the awaited saveConfig of an operation settles
SaveSettles(c, ok) ==
    /\ cmCall[c].pc = "saving" /\ CmQuiet
    /\ IF ok THEN cmFile' \in WriteOutcomes(cmCall[c], cmConfig.guilds)
       ELSE cmFile' \in FailedWriteOutcomes(cmFile)
    /\ cmCall' = [cmCall EXCEPT ![c].pc = IF ok THEN "done" ELSE "threw"]
    /\ cmWrites' = IF ok /\ cmCall[c].op \in CommandOps THEN cmWrites + 1 ELSE cmWrites
    /\ UNCHANGED <<cmConfig, cmIsLoading, cmReads, cmReady, botGuilds, cmEvents, cmLeft, exceptCm, now>>

\* the operation's promise is settled and its caller (the event handler) goes on
CmReturns(c) ==
    /\ CmSettled(c)
    /\ cmCall' = [cmCall EXCEPT ![c] = IdleCm]
    /\ cmLeft' = IF cmCall[c].op = "remove" /\ cmCall[c].guildId \notin botGuilds
                  THEN cmLeft \cup {cmCall[c].guildId} ELSE cmLeft
    /\ UNCHANGED <<cmConfig, cmIsLoading, cmFile, cmReads, cmReady, botGuilds, cmEvents, cmWrites, exceptCm, now>>

InitCm ==
    /\ cmConfig = NullConfig
    /\ cmIsLoading = FALSE
    /\ cmFile = MissingFile
    /\ cmReads = 0
    /\ cmReady = FALSE
    /\ botGuilds = {}
    /\ cmEvents = 0
    /\ cmLeft = {}
    /\ cmCall = [c \in CallerSet |-> IdleCm]
    /\ cmWrites = 0

(***************************************************************************)
(* fetchWithSharedCache (src/unnamed/part_003, src/src/discord/index.ts)    *)
(***************************************************************************)
SHARED_CACHE_DURATION == 60000
MaxWfTicks == 3
WfTickMs   == SHARED_CACHE_DURATION \div 2
MaxWfTime  == MaxWfTicks * WfTickMs

WfEndpoints == {"/fissures", "/nightwave"}
WfData      == {"a", "b"}
WfProcs     == {"w1", "w2"}

NoEntry == [has |-> FALSE, data |-> "", timestamp |-> 0]
CacheEntry(data, timestamp) == [has |-> TRUE, data |-> data, timestamp |-> timestamp]

\* variant: entries go stale after half the duration
IsFresh_ShortWindow(cached, t) ==
    cached.has /\ t - cached.timestamp < SHARED_CACHE_DURATION \div 2

\* cached && Date.now() - cached.timestamp < SHARED_CACHE_DURATION
IsFresh(cached, t) ==
    cached.has /\ t - cached.timestamp < SHARED_CACHE_DURATION

\* network: "none", "pending", "ok" or "failed" (history of the call's fetch())
IdleWf == [pc |-> "idle", endpoint |-> "", cached |-> NoEntry, network |-> "none",
           result |-> "none"]
WfSettled(w) == wfCall[w].pc \in {"done", "threw"}
WfQuiet == \A w \in WfProcs : ~WfSettled(w)

\* fetchWithSharedCache(endpoint), up to the return of cached data or to the
\* await of fetch()
FetchWithSharedCache(w, endpoint) ==
    /\ wfCall[w].pc = "idle"
    /\ LET cached == sharedApiCache[endpoint]
           call == [IdleWf EXCEPT !.endpoint = endpoint, !.cached = cached]
       IN  wfCall' = [wfCall EXCEPT ![w] =
               IF IsFresh(cached, now)
               THEN [call EXCEPT !.pc = "done", !.result = cached.data]
               ELSE [call EXCEPT !.pc = "fetching", !.network = "pending"]]
    /\ UNCHANGED <<sharedApiCache, wfLastOk, exceptWf, now>>

\* fetch() and response.json() settle: ok = a 2xx response whose body parses
WfFetchSettles(w, ok, data) ==
    /\ wfCall[w].pc = "fetching" /\ WfQuiet
    /\ LET call == wfCall[w] IN
       IF ok
       THEN /\ sharedApiCache' = [sharedApiCache EXCEPT ![call.endpoint] = CacheEntry(data, now)]
            /\ wfLastOk' = [wfLastOk EXCEPT ![call.endpoint] = CacheEntry(data, now)]
            /\ wfCall' = [wfCall EXCEPT ![w] =
                   [call EXCEPT !.pc = "done", !.network = "ok", !.result = data]]
       ELSE /\ wfCall' = [wfCall EXCEPT ![w] =
                   IF call.cached.has
                   THEN [call EXCEPT !.pc = "done", !.network = "failed",
                                     !.result = call.cached.data]
                   ELSE [call EXCEPT !.pc = "threw", !.network = "failed"]]
            /\ UNCHANGED <<sharedApiCache, wfLastOk>>
    /\ UNCHANGED <<exceptWf, now>>

\* the caller has the data or the error
WfReturns(w) ==
    /\ WfSettled(w)
    /\ wfCall' = [wfCall EXCEPT ![w] = IdleWf]
    /\ UNCHANGED <<sharedApiCache, wfLastOk, exceptWf, now>>

TickWf ==
    /\ now + WfTickMs <= MaxWfTime /\ WfQuiet
    /\ now' = now + WfTickMs
    /\ UNCHANGED <<wfVars, exceptWf>>

InitWf ==
    /\ sharedApiCache = [e \in WfEndpoints |-> NoEntry]
    /\ wfLastOk = [e \in WfEndpoints |-> NoEntry]
    /\ wfCall = [w \in WfProcs |-> IdleWf]

(***************************************************************************)
(* csrfProtection (src/src/server/middleware/csrf.ts) and the preHandler    *)
(* hook (src/src/server/index.ts)                                           *)
(***************************************************************************)
NoToken == "none"
CsTokens  == {"t1", "t2"}
CsMethods == {"GET", "HEAD", "POST", "DELETE"}
CsUrls    == {"/health", "/api/guilds"}
\* the options argument: left out, or { ignoreMethods: [], ignorePaths: [] }
CsOptions == {"default", "ignoreNothing"}

\* { ...defaultOptions, ...options }
CsConfig(options) ==
    [ignoreMethods |-> IF options = "default" THEN {"GET", "HEAD", "OPTIONS"} ELSE {},
     ignorePaths   |-> IF options = "default" THEN {"/health", "/metrics"} ELSE {}]

CsResult(valid, setCookie) == [valid |-> valid, setCookie |-> setCookie]

\* variant: the ignored methods are not looked at before a token is issued
CsIgnoredMethod_Never(config, method) == FALSE

\* csrfProtection, line 48: config.ignoreMethods?.includes(request.method)
CsIgnoredMethod(config, method) == method \in config.ignoreMethods

\* csrfProtection: the value returned and the cookie set on the reply, if any;
\* newToken is what generateToken() gives
\* !cookieToken: the cookie is absent or the empty string
CsNoCookie(cookieToken) == cookieToken = NoToken \/ cookieToken = ""

csrfProtection(method, url, cookieToken, headerToken, options, newToken) ==
    LET config == CsConfig(options) IN
    IF CsIgnoredMethod(config, method) THEN CsResult(TRUE, NoToken)
    ELSE IF \E path \in config.ignorePaths : StartsWith(url, path)
    THEN CsResult(TRUE, NoToken)
    ELSE IF method = "GET" /\ CsNoCookie(cookieToken)
    THEN CsResult(TRUE, newToken)
    ELSE IF method # "GET"
    THEN IF CsNoCookie(cookieToken) \/ headerToken # cookieToken
         THEN CsResult(FALSE, NoToken)
         ELSE CsResult(TRUE, NoToken)
    ELSE CsResult(TRUE, NoToken)

NoCsCall == [method |-> "", url |-> "", cookieToken |-> NoToken, headerToken |-> NoToken,
             options |-> "", hook |-> FALSE, status |-> 0, result |-> CsResult(FALSE, NoToken)]

\* csrfProtection(request, reply, options) called on its own
CsrfProtection(method, url, cookieToken, headerToken, options, newToken) ==
    /\ csLast' = [method |-> method, url |-> url, cookieToken |-> cookieToken,
                  headerToken |-> headerToken, options |-> options, hook |-> FALSE,
                  status |-> 0,
                  result |-> csrfProtection(method, url, cookieToken, headerToken,
                                            options, newToken)]
    /\ UNCHANGED <<csJar, rlVars, exceptCs, now>>

\* the preHandler hook for a request of the client at clientIp, which sends the
\* cookie it holds: rate limit first, then csrfProtection for the state-changing
\* methods; status 0 = the request goes on to its route
PreHandler(clientIp, method, url, headerToken, newToken) ==
    LET c == checkLimit(limits, rlConfigs, clientIp, "api", now)
        r == csrfProtection(method, url, csJar, headerToken, "default", newToken)
        called == c.result.allowed /\ method \in {"POST", "PUT", "DELETE", "PATCH"}
    IN  /\ limits' = c.limits
        /\ rlLast' = [identifier |-> clientIp, limitKey |-> "api",
                      known |-> MapHas(rlConfigs, "api"), result |-> c.result]
        /\ rlHist' = IF MapHas(rlConfigs, "api")
                     THEN HistAfter(rlHist, LimitKeyOf("api", clientIp),
                                    rlConfigs["api"], now, c.result.allowed)
                     ELSE rlHist
        /\ csLast' = IF called
                     THEN [method |-> method, url |-> url, cookieToken |-> csJar,
                           headerToken |-> headerToken, options |-> "default",
                           hook |-> TRUE, status |-> IF r.valid THEN 0 ELSE 403,
                           result |-> r]
                     ELSE [NoCsCall EXCEPT !.method = method, !.url = url, !.hook = TRUE,
                                           !.cookieToken = csJar, !.headerToken = headerToken,
                                           !.status = IF c.result.allowed THEN 0 ELSE 429]
        /\ csJar' = IF called /\ r.setCookie # NoToken THEN r.setCookie ELSE csJar
        /\ UNCHANGED <<rlConfigs, exceptCs, now>>

InitCs ==
    /\ csJar = NoToken
    /\ csLast = NoCsCall

(***************************************************************************)
(* ErrorRecoveryManager.retryWithBackoff (healthCheck.ts)                   *)
(***************************************************************************)
\* a destructuring default: it applies to a property that is undefined only
DestructDefault(x, d) == IF x = Undefined THEN d ELSE x

RbDefaultMaxRetries == 3
RbDefaultBaseDelay  == 1000
RbDefaultMaxDelay   == 30000
RbDefaultMultiplier == 2

\* the config arguments explored; retryCondition "default" is left out, "notE2"
\* rejects the error E2
RbConfigs ==
    [maxRetries : {Undefined, 0, 1, 2}, baseDelay : {Undefined, 500},
     maxDelay : {Undefined, 1200}, backoffMultiplier : {Undefined, 3},
     retryCondition : {"default", "notE2"}]
RbValues == {"v1", "v2"}
RbErrors == {"E1", "E2"}

\* the destructured config
RbEffective(config) ==
    [maxRetries |-> DestructDefault(config.maxRetries, RbDefaultMaxRetries),
     baseDelay |-> DestructDefault(config.baseDelay, RbDefaultBaseDelay),
     maxDelay |-> DestructDefault(config.maxDelay, RbDefaultMaxDelay),
     backoffMultiplier |-> DestructDefault(config.backoffMultiplier, RbDefaultMultiplier),
     retryCondition |-> config.retryCondition]

retryCondition(cond, error) == IF cond = "default" THEN TRUE ELSE error # "E2"

\* variant: the attempt counted as the last one is the one after maxRetries
RbLastAttempt_OneLater(attempt, maxRetries) == attempt = maxRetries + 1

\* attempt === maxRetries
RbLastAttempt(attempt, maxRetries) == attempt = maxRetries

\* Math.min(baseDelay * Math.pow(backoffMultiplier, attempt), maxDelay)
RbDelay(c, attempt) == Min(c.baseDelay * (c.backoffMultiplier ^ attempt), c.maxDelay)

\* history entries: a call of fn with its outcome, or a wait with its delay
RbEvent(kind, attempt, out, delay) ==
    [kind |-> kind, attempt |-> attempt, out |-> out, delay |-> delay]

IdleRb == [pc |-> "idle", config |-> RbEffective([maxRetries |-> Undefined,
               baseDelay |-> Undefined, maxDelay |-> Undefined,
               backoffMultiplier |-> Undefined, retryCondition |-> "default"]),
           attempt |-> 0, lastError |-> "undefined", result |-> "none",
           error |-> "none", log |-> <<>>]

\* retryWithBackoff(fn, config) up to the first await: fn is called when the
\* loop is entered, and lastError (still undefined) is thrown when it is not
RetryWithBackoff(config) ==
    /\ rbCall.pc = "idle"
    /\ LET c == RbEffective(config)
           r == [IdleRb EXCEPT !.config = c]
       IN  rbCall' = IF 0 <= c.maxRetries
                     THEN [r EXCEPT !.pc = "calling",
                                    !.log = <<RbEvent("call", 0, "pending", 0)>>]
                     ELSE [r EXCEPT !.pc = "threw", !.error = r.lastError]
    /\ UNCHANGED <<exceptRb, now>>

\* the promise of fn() settles with `out`
RbFnSettles(out) ==
    /\ rbCall.pc = "calling"
    /\ LET r == [rbCall EXCEPT !.log[Len(rbCall.log)].out = out] IN
       rbCall' =
         IF out \in RbValues
         THEN [r EXCEPT !.pc = "done", !.result = out]
         ELSE IF RbLastAttempt(r.attempt, r.config.maxRetries)
                 \/ ~retryCondition(r.config.retryCondition, out)
         THEN [r EXCEPT !.pc = "threw", !.lastError = out, !.error = out]
         ELSE [r EXCEPT !.pc = "waiting", !.lastError = out,
                        !.log = Append(@, RbEvent("wait", r.attempt, "none",
                                                  RbDelay(r.config, r.attempt)))]
    /\ UNCHANGED <<exceptRb, now>>

\* the timer of the wait fires: the loop goes on with the next attempt, or ends
RbTimerFires ==
    /\ rbCall.pc = "waiting"
    /\ rbCall' =
         IF rbCall.attempt + 1 <= rbCall.config.maxRetries
         THEN [rbCall EXCEPT !.pc = "calling", !.attempt = @ + 1,
                             !.log = Append(@, RbEvent("call", rbCall.attempt + 1,
                                                       "pending", 0))]
         ELSE [rbCall EXCEPT !.pc = "threw", !.attempt = @ + 1,
                             !.error = rbCall.lastError]
    /\ UNCHANGED <<exceptRb, now>>

\* the caller has the value or the error
RbReturns ==
    /\ rbCall.pc \in {"done", "threw"}
    /\ rbCall' = IdleRb
    /\ UNCHANGED <<exceptRb, now>>

InitRb == rbCall = IdleRb

Init == InitApi /\ InitRl /\ InitEr /\ InitHc /\ InitCm /\ InitWf /\ InitCs /\ InitRb

\* the steps of the ApiManager with one request() activation at a time, for the
\* registrations `regs`, the cache lifetimes `ttls` and the clock limit `limit`
ApiNext(regs, ttls, limit) ==
    \/ \E config \in regs : Quiet /\ RegisterApi("warframe", config)
    \/ \E p \in SeqProcs, apiName \in ApiNames, path \in Paths, cacheTtl \in ttls :
          RequestStart(p, apiName, path, cacheTtl)
    \/ \E p \in SeqProcs, out \in Outcomes : FetchReturns(p, out)
    \/ \E p \in SeqProcs : SleepDone(p, limit)
    \/ \E p \in SeqProcs : Return(p)

\* circuit breakers and fallback, no caching
Next ==
    \/ ApiNext(RegInputs, {0}, MaxTime)
    \/ Tick(MaxTime)

Spec == Init /\ [][Next]_vars

\* caching
NextCache ==
    \/ ApiNext(CacheRegInputs, CacheTtls, MaxCacheTime)
    \/ \E apiName \in ApiNames \cup {""} : Quiet /\ ClearCacheOf(apiName)
    \/ Quiet /\ ClearCacheAll
    \/ Tick(MaxCacheTime)

SpecCache == Init /\ [][NextCache]_vars

\* the rate limiter
NextRate ==
    \/ \E config \in RlPolicies : RegisterLimit("burst", config)
    \/ \E c \in RlCalls : CheckLimit(c[1], c[2])
    \/ Cleanup
    \/ TickRate

SpecRate == Init /\ [][NextRate]_vars

\* the error recovery manager
NextRecovery ==
    \/ ErQuiet /\ InitializeRecovery
    \/ \E a \in CustomActions : ErQuiet /\ AddRecoveryAction(a)
    \/ \E h \in Handlers, error \in ErInputs, heapHigh \in BOOLEAN :
          HandleError(h, error, heapHigh)
    \/ \E h \in Handlers, ok \in BOOLEAN : ActionSettles(h, ok)
    \/ \E h \in Handlers : HandleErrorReturns(h)
    \/ ErQuiet /\ ClearHistory

SpecRecovery == Init /\ [][NextRecovery]_vars

\* the error recovery manager with one error of each kind: actions apply, no
\* action applies, a predicate throws
FlagErInputs ==
    { [hasMessage |-> TRUE, message |-> "out of memory, connection lost"],
      [hasMessage |-> TRUE, message |-> "boom"],
      [hasMessage |-> FALSE, message |-> ""] }

NextFlag ==
    \/ ErQuiet /\ InitializeRecovery
    \/ \E a \in {x \in CustomActions : x.priority = 0} : ErQuiet /\ AddRecoveryAction(a)
    \/ \E h \in Handlers, error \in FlagErInputs : HandleError(h, error, FALSE)
    \/ \E h \in Handlers, ok \in BOOLEAN : ActionSettles(h, ok)
    \/ \E h \in Handlers : HandleErrorReturns(h)
    \/ ErQuiet /\ ClearHistory

\* every recovery action that is run terminates, however many handleError calls
\* arrive and are dropped in the meantime, and the caller of a handleError call
\* that has ended goes on
SpecRecoveryFair ==
    /\ Init /\ [][NextFlag]_vars
    /\ \A h \in Handlers :
          /\ SF_vars(\E ok \in BOOLEAN : ActionSettles(h, ok))
          /\ WF_vars(HandleErrorReturns(h))

\* the health checker, next to an ApiManager whose breakers count failures and open
NextHealth ==
    \/ ApiNext(HealthRegInputs, {0}, MaxHealthTime)
    \/ \E k \in Checkers, d \in DiscordInputs : PerformHealthCheck(k, d)
    \/ \E k \in Checkers, ok \in BOOLEAN, usagePercent \in HeapPercents :
          FileOpSettles(k, ok, usagePercent)
    \/ \E k \in Checkers : HealthCheckReturns(k)

SpecHealth == Init /\ [][NextHealth]_vars

\* the configuration store and the guild events
NextConfig ==
    \/ \E content \in FileContents : PreviousRunLeft(content)
    \/ \E c \in CallerSet, bg \in SUBSET Guilds : Ready(c, bg)
    \/ \E c \in CallerSet, g \in Guilds : GuildCreate(c, g)
    \/ \E c \in CallerSet, g \in Guilds : GuildDelete(c, g)
    \/ \E c \in CallerSet : GetGuildConfig(c, "g1")
    \/ \E c \in CallerSet, ok \in BOOLEAN : ReadSettles(c, ok)
    \/ \E c \in CallerSet, ok \in BOOLEAN : LoadSaveSettles(c, ok)
    \/ \E c \in CallerSet : PollWakes(c)
    \/ \E c \in CallerSet, ok \in BOOLEAN : SaveSettles(c, ok)
    \/ \E c \in CallerSet : CmReturns(c)

SpecConfig == Init /\ [][NextConfig]_vars

\* at most two of the calls overlap
NotifyCallers == {"c1", "c2"}

\* the bot_notification commands of the guilds' administrators, with the guild
\* events around them
\* a turn of the event loop has run the continuations it queued to their next
\* await of I/O or a timer: no command is between its check and its
\* setGuildConfig
TurnEnded == \A c \in CallerSet : cmCall[c].pc # "checked"

\* the commands and the guild events, MaxCommands of them in all, each resolved
\* deferReply, gateway event, file operation and timer being a callback of its
\* own, after which the continuations it has queued run before the next
\* callback
NextNotify ==
    \/ \E content \in FileContents : PreviousRunLeft(content)
    \/ \E c \in NotifyCallers, bg \in SUBSET Guilds : TurnEnded /\ Ready(c, bg)
    \/ \E c \in NotifyCallers, action \in CommandOps, g \in Guilds, ch \in Channels :
          TurnEnded /\ BotNotification(c, action, g, ch)
    \/ \E c \in NotifyCallers : SetGuildConfig(c)
    \/ \E c \in NotifyCallers, g \in Guilds :
          TurnEnded /\ cmEvents < MaxCommands /\ GuildCreate(c, g)
    \/ \E c \in NotifyCallers, g \in Guilds :
          TurnEnded /\ cmEvents < MaxCommands /\ GuildDelete(c, g)
    \/ \E c \in NotifyCallers, ok \in BOOLEAN : TurnEnded /\ ReadSettles(c, ok)
    \/ \E c \in NotifyCallers, ok \in BOOLEAN : TurnEnded /\ LoadSaveSettles(c, ok)
    \/ \E c \in NotifyCallers : TurnEnded /\ PollWakes(c)
    \/ \E c \in NotifyCallers, ok \in BOOLEAN : TurnEnded /\ SaveSettles(c, ok)
    \/ \E c \in NotifyCallers : TurnEnded /\ CmReturns(c)

SpecNotify == Init /\ [][NextNotify]_vars

\* the Warframe data fetcher
NextWf ==
    \/ \E w \in WfProcs, endpoint \in WfEndpoints : FetchWithSharedCache(w, endpoint)
    \/ \E w \in WfProcs, ok \in BOOLEAN, data \in WfData : WfFetchSettles(w, ok, data)
    \/ \E w \in WfProcs : WfReturns(w)
    \/ TickWf

SpecWf == Init /\ [][NextWf]_vars

\* the CSRF middleware, called on its own and from the preHandler hook
NextCsrf ==
    \/ \E method \in CsMethods, url \in CsUrls, cookieToken \in CsTokens \cup {NoToken, ""},
          headerToken \in CsTokens \cup {NoToken}, options \in CsOptions, newToken \in CsTokens :
          CsrfProtection(method, url, cookieToken, headerToken, options, newToken)
    \/ \E method \in CsMethods, url \in CsUrls, headerToken \in CsTokens \cup {NoToken},
          newToken \in CsTokens :
          PreHandler("ip1", method, url, headerToken, newToken)

SpecCsrf == Init /\ [][NextCsrf]_vars

\* the generic retry helper
NextBackoff ==
    \/ \E config \in RbConfigs : RetryWithBackoff(config)
    \/ \E out \in RbValues \cup RbErrors : RbFnSettles(out)
    \/ RbTimerFires
    \/ RbReturns

SpecBackoff == Init /\ [][NextBackoff]_vars

\* ---- RateLimiter: readers of the history ----
\* the window the last checkLimit call fell in
LastWindow == rlHist[LimitKeyOf(rlLast.limitKey, rlLast.identifier)]

\* C9: for every registered policy {maxRequests: m, windowMs: w} and identifier, while
\* the policy stays as registered: the calls of one window are allowed with remaining
\* m-1, m-2, ..., 0 until m were allowed, every further call of the window is denied
\* with remaining 0 and the window's reset time, the first call at or after the reset
\* time opens a fresh window (allowed, remaining m-1, reset time now + w), and so no
\* window has more than m allowed calls.
C9_WindowAllowsAtMostM ==
    /\ \A k \in DOMAIN rlHist :
          rlHist[k].steady => rlHist[k].allowed <= rlHist[k].policy.maxRequests
    /\ (rlLast.known /\ LastWindow.steady) =>
          /\ rlLast.result.full
          /\ rlLast.result.resetTime = LastWindow.ends
          /\ IF rlLast.result.allowed
             THEN rlLast.result.remaining =
                      LastWindow.policy.maxRequests - LastWindow.allowed
             ELSE /\ LastWindow.allowed = LastWindow.policy.maxRequests
                  /\ rlLast.result.remaining = 0

\* the 11th call of a "command" window is denied, later than the window's first call
C9_Witness ==
    /\ rlLast.known /\ rlLast.limitKey = "command" /\ ~rlLast.result.allowed
    /\ LastWindow.steady /\ LastWindow.allowed = CommandLimit.maxRequests
    /\ rlLast.result.remaining = 0
    /\ now > LastWindow.ends - CommandLimit.windowMs

\* C10: a checkLimit call whose limitKey has no registered policy returns allowed,
\* with no remaining and no reset time, whatever was called before, and leaves every
\* window record as it was (none created, none changed).
C10_UnknownKeyFailOpen ==
    [][\A c \in RlCalls :
          (~MapHas(rlConfigs, c[2]) /\ CheckLimit(c[1], c[2]))
              => /\ limits' = limits
                 /\ rlLast'.result = RlResult(TRUE, FALSE, 0, 0)]_vars

\* an unknown key was checked while windows of other keys were open
C10_Witness ==
    /\ rlLast.limitKey = "nokey" /\ ~rlLast.known /\ rlLast.result.allowed
    /\ \E k \in DOMAIN limits : limits[k].count >= 2

\* retry and backoff of makeRequest
NextRetry == ApiNext(RetryRegInputs, {0}, MaxRetryTime)

\* overlapping request() activations, and registerApi at any moment
NextConc ==
    \/ \E config \in ConcRegInputs : NoneSettled /\ RegisterApi("warframe", config)
    \/ \E p \in Procs, path \in Paths, cacheTtl \in ConcTtls :
          NoneSettled /\ RequestStart(p, "warframe", path, cacheTtl)
    \/ NoneSettled /\ ClearCacheAll
    \/ \E p \in Procs, out \in ConcOutcomes : NoneSettled /\ FetchReturns(p, out)
    \/ \E p \in Procs : NoneSettled /\ SleepDone(p, MaxConcTime)
    \/ \E p \in Procs : Return(p)
    \/ Tick(MaxConcTime)

SpecConc == Init /\ [][NextConc]_vars

\* a request() activation of the API is between its start and its end
ApiInFlight(name) == \E p \in Procs : req[p].pc # "idle" /\ req[p].apiName = name

\* overlapping request() activations; registerApi at any moment, but with the
\* threshold the API has already while one of its requests is in flight
NextBreaker ==
    \/ \E config \in BreakerRegInputs :
          /\ NoneSettled
          /\ ApiInFlight("warframe") =>
                 BuildApiConfig("warframe", config).circuitBreakerThreshold
                     = configs["warframe"].circuitBreakerThreshold
          /\ RegisterApi("warframe", config)
    \/ \E p \in Procs, path \in Paths :
          NoneSettled /\ RequestStart(p, "warframe", path, 0)
    \/ \E p \in Procs, out \in ConcOutcomes : NoneSettled /\ FetchReturns(p, out)
    \/ \E p \in Procs : NoneSettled /\ SleepDone(p, MaxConcTime)
    \/ \E p \in Procs : Return(p)
    \/ Tick(MaxConcTime)

SpecBreaker == Init /\ [][NextBreaker]_vars

SpecRetry == Init /\ [][NextRetry]_vars


(***************************************************************************)
(* Reading an activation's history                                          *)
(***************************************************************************)
Endpoints(r) == 1..Len(r.config.endpoints)
KeyOf(r, i)  == CircuitKey(r.apiName, r.config.endpoints[i].url)

\* positions of the HTTP calls made to endpoint i
FetchesOf(r, i) == {j \in 1..Len(r.log) : r.log[j].kind = "fetch" /\ r.log[j].ep = i}
\* all HTTP calls of the activation
AllFetches(r) == {j \in 1..Len(r.log) : r.log[j].kind = "fetch"}
\* endpoints whose single-endpoint attempt ended in an error
FailedEps(r) == {i \in Endpoints(r) : i < r.idx /\ FetchesOf(r, i) # {}}
\* endpoints skipped because their breaker was open
SkippedEps(r) == {i \in Endpoints(r) :
                     \E j \in 1..Len(r.log) : r.log[j].kind = "skip" /\ r.log[j].ep = i}
\* the activation got its answer from the network
NetSuccess(r) == r.pc = "done" /\ r.lastOut \in Payloads /\ r.idx \in Endpoints(r)
\* the walk ran past the last endpoint
WalkedOut(r) == /\ r.pc \in {"done", "thrown"}
                /\ r.config # NoConfig
                /\ r.idx = Len(r.config.endpoints) + 1

(***************************************************************************)
(* C1. If the first K (< N) endpoints of an API fail and endpoint K+1       *)
(* succeeds, request returns the result of endpoint K+1, the failure count  *)
(* of the breaker of each of endpoints 1..K is one more than before the     *)
(* call, and the breaker of endpoint K+1 is closed with zero failures; for  *)
(* every registration, the startup one (fallback = primary) included.       *)
(***************************************************************************)
C1_FallbackBreakers ==
    \A p \in Procs :
        LET r == req[p]
        IN  (NetSuccess(r) /\ \A i \in 1..(r.idx - 1) : i \in FailedEps(r)) =>
                /\ r.result = r.lastOut
                /\ \A i \in 1..(r.idx - 1) :
                      circuitBreakers[KeyOf(r, i)].failures
                          = r.startBrk[KeyOf(r, i)].failures + 1
                /\ ~circuitBreakers[KeyOf(r, r.idx)].isOpen
                /\ circuitBreakers[KeyOf(r, r.idx)].failures = 0

(***************************************************************************)
(* C2 as stated. A request call made while an endpoint's breaker is open    *)
(* and now - lastFailure <= resetMs issues no network call to that endpoint.*)
(***************************************************************************)
C2_CallMadeInWindowSkips ==
    \A p \in Procs :
        LET r == req[p]
        IN  \A i \in Endpoints(r) :
                LET b == r.startBrk[KeyOf(r, i)]
                IN  (b.isOpen /\ r.startNow - b.lastFailure <= r.config.circuitBreakerResetTime)
                        => FetchesOf(r, i) = {}

(***************************************************************************)
(* C2 amended. The failure that makes `threshold` failed outcomes in a row  *)
(* on an endpoint leaves its breaker open; whenever request consults an     *)
(* open breaker at a time with now - lastFailure <= resetMs it skips the    *)
(* endpoint without a network call, and whenever it consults an open        *)
(* breaker with now - lastFailure > resetMs it attempts the endpoint.       *)
(***************************************************************************)
ConsultsRight(r) ==
    \A j \in 1..Len(r.log) :
        LET e == r.log[j]
        IN  (e.kind \in {"skip", "fetch"} /\ e.attempt = 0 /\ e.pre.isOpen) =>
                IF e.at - e.pre.lastFailure <= r.config.circuitBreakerResetTime
                THEN e.kind = "skip"
                ELSE e.kind = "fetch"

OpensAtThreshold ==
    \A name \in DOMAIN configs :
        \A i \in 1..Len(configs[name].endpoints) :
            LET k == CircuitKey(name, configs[name].endpoints[i].url)
            IN  (consec'[k] = consec[k] + 1
                 /\ consec'[k] = configs[name].circuitBreakerThreshold)
                    => circuitBreakers'[k].isOpen

C2_BreakerOpensAndSkips ==
    [][OpensAtThreshold /\ \A p \in Procs : ConsultsRight(req'[p])]_vars

\* an activation skipped one endpoint (open, inside its window) and attempted
\* another whose breaker it found open with the reset time elapsed
C2_Witness ==
    \E p \in Procs :
        LET r == req[p]
        IN  /\ \E j \in 1..Len(r.log) : r.log[j].kind = "skip"
            /\ \E j \in 1..Len(r.log) :
                  /\ r.log[j].kind = "fetch" /\ r.log[j].attempt = 0
                  /\ r.log[j].pre.isOpen
                  /\ r.log[j].pre.failures >= r.config.circuitBreakerThreshold


(***************************************************************************)
(* C3. A request call with a ttl > 0 that is made less than cacheTtlMs      *)
(* after the last successful fetch for the same (apiName, path) made with   *)
(* cacheTtlMs returns that fetch's payload and issues no network call,      *)
(* whatever the breaker states are.                                         *)
(***************************************************************************)
WithinStoredTtl(r) ==
    LET k == <<r.apiName, r.path>>
    IN  /\ r.pc # "idle"
        /\ r.cacheTtl > 0
        /\ k \in DOMAIN r.startStored
        /\ r.startNow - r.startStored[k].at < r.startStored[k].ttl

C3_FreshCacheHit ==
    \A p \in Procs :
        LET r == req[p]
        IN  WithinStoredTtl(r) =>
                /\ r.pc = "done"
                /\ r.result = r.startStored[<<r.apiName, r.path>>].data
                /\ AllFetches(r) = {}
                /\ r.log = <<>>

\* a hit while a breaker of the API is open, by a call whose own ttl differs from
\* the ttl of the call that stored the answer
C3_Witness ==
    \E p \in Procs :
        LET r == req[p]
        IN  /\ WithinStoredTtl(r)
            /\ r.pc = "done"
            /\ r.cacheTtl # r.startStored[<<r.apiName, r.path>>].ttl
            /\ \E i \in Endpoints(r) : circuitBreakers[KeyOf(r, i)].isOpen

(***************************************************************************)
(* C4. When every endpoint failed or was skipped and a cache entry exists   *)
(* for apiName:path, of any age and whatever ttl the call passed, request   *)
(* returns the cached payload and does not raise.                           *)
(***************************************************************************)
C4_StaleFallback ==
    \A p \in Procs :
        LET r == req[p]
            cacheKey == CacheKey(r.apiName, r.path)
        IN  (WalkedOut(r) /\ MapHas(cache, cacheKey)) =>
                /\ r.pc = "done"
                /\ r.result = cache[cacheKey].data

\* the entry had expired and the call passed ttl 0
C4_Witness ==
    \E p \in Procs :
        LET r == req[p]
            cacheKey == CacheKey(r.apiName, r.path)
        IN  /\ WalkedOut(r) /\ MapHas(cache, cacheKey)
            /\ r.startNow - cache[cacheKey].timestamp >= cache[cacheKey].ttl
            /\ r.cacheTtl = 0
            /\ r.pc = "done"

(***************************************************************************)
(* C5. When every endpoint failed or was skipped and no cache entry exists  *)
(* for apiName:path, request raises; the error raised is the last endpoint  *)
(* error met during the call (the generic "all endpoints failed" error when *)
(* every endpoint was skipped, so that there is none).                      *)
(***************************************************************************)
C5_ThrowsLastError ==
    \A p \in Procs :
        LET r == req[p]
        IN  (WalkedOut(r) /\ ~MapHas(cache, CacheKey(r.apiName, r.path))) =>
                /\ r.pc = "thrown"
                /\ r.error = IF r.lastOut \in Errors THEN r.lastOut
                             ELSE "All endpoints failed"

\* two endpoints failed in the call
C5_Witness ==
    \E p \in Procs :
        LET r == req[p]
        IN  /\ WalkedOut(r) /\ ~MapHas(cache, CacheKey(r.apiName, r.path))
            /\ Cardinality(FailedEps(r)) = 2
            /\ r.pc = "thrown" /\ r.error \in Errors

(***************************************************************************)
(* C6. request on a name that was never registered fails with "API          *)
(* configuration not found" before any other step: no network call, no     *)
(* cache entry written, no breaker changed.                                 *)
(***************************************************************************)
C6_UnregisteredFailsFirst ==
    \A p \in Procs :
        LET r == req[p]
        IN  (r.pc # "idle" /\ ~MapHas(configs, r.apiName)) =>
                /\ r.pc = "thrown"
                /\ r.error = "API configuration not found"
                /\ r.log = <<>>
                /\ circuitBreakers = r.startBrk
                /\ cache = r.startCache

\* the call was made while the cache held an entry and a breaker was open
C6_Witness ==
    \E p \in Procs :
        LET r == req[p]
        IN  /\ r.pc = "thrown" /\ ~MapHas(configs, r.apiName)
            /\ cache # EmptyMap
            /\ \E k \in DOMAIN circuitBreakers : circuitBreakers[k].isOpen

(***************************************************************************)
(* C7. For an endpoint configured with maxRetries = n (n >= 0, 0 included), *)
(* a single-endpoint attempt in which every HTTP call fails makes exactly   *)
(* n + 1 HTTP calls (3 + 1 when maxRetries is left out), and the error that *)
(* comes out of it is the error of the last call.                           *)
(***************************************************************************)
ConfiguredRetries(r, i) ==
    IF r.config.endpoints[i].retries = Undefined THEN 3
    ELSE r.config.endpoints[i].retries

C7_AttemptsAreRetriesPlusOne ==
    \A p \in Procs :
        LET r == req[p]
        IN  /\ \A i \in FailedEps(r) :
                  Cardinality(FetchesOf(r, i)) = ConfiguredRetries(r, i) + 1
            /\ (WalkedOut(r) /\ FailedEps(r) # {}) => r.lastError = r.lastOut

(***************************************************************************)
(* C8. In makeRequest the wait after failed attempt a (from 0) that is not  *)
(* the last attempt is min(1000 * 2^a, 10000) ms: 1000, 2000, 4000, 8000,   *)
(* 10000, 10000, ...; the next attempt starts no sooner; no wait follows    *)
(* the last attempt and none precedes the first.                            *)
(***************************************************************************)
WaitsRight(r) ==
    \A j \in 1..Len(r.log) :
        LET e == r.log[j]
            last == EffectiveRetries(r.config.endpoints[e.ep], r.config)
        IN  /\ e.kind = "wait" =>
                /\ j > 1
                /\ r.log[j - 1].kind = "fetch" /\ r.log[j - 1].out = "fail"
                /\ r.log[j - 1].ep = e.ep /\ r.log[j - 1].attempt = e.attempt
                /\ e.attempt < last
                /\ e.delay = Min(1000 * (2 ^ e.attempt), 10000)
                /\ j < Len(r.log) =>
                      /\ r.log[j + 1].kind = "fetch" /\ r.log[j + 1].ep = e.ep
                      /\ r.log[j + 1].attempt = e.attempt + 1
                      /\ r.log[j + 1].at - e.at >= e.delay
            /\ (e.kind = "fetch" /\ e.out = "fail") =>
                IF e.attempt < last
                THEN j < Len(r.log) /\ r.log[j + 1].kind = "wait"
                ELSE j = Len(r.log) \/ r.log[j + 1].kind # "wait"
            /\ (e.kind = "fetch" /\ e.attempt = 0) =>
                (j = 1 \/ r.log[j - 1].kind # "wait")

C8_BackoffWaits == \A p \in Procs : WaitsRight(req[p])

IsWait(e) == e.kind = "wait"
\* seven failed attempts with the waits 1000, 2000, 4000, 8000, 10000, 10000
C8_Witness ==
    \E p \in Procs :
        LET w == SelectSeq(req[p].log, IsWait)
        IN  /\ req[p].pc = "thrown"
            /\ [j \in 1..Len(w) |-> w[j].delay]
                   = <<1000, 2000, 4000, 8000, 10000, 10000>>

(***************************************************************************)
(* C11. registerApi always succeeds; on a name that is registered already  *)
(* it replaces the stored configuration wholesale: endpoint list, timeout, *)
(* retries, threshold and reset time all come from the new call (or from   *)
(* the defaults where the new call leaves them out), requests started      *)
(* afterwards work on the new configuration, and every endpoint of the new *)
(* list has a breaker that is closed with zero failures, whatever its      *)
(* state was before.                                                       *)
(***************************************************************************)
GivenOr(x, d) == IF x = Undefined THEN d ELSE x

C11_ReRegistrationReplaces ==
    /\ \A config \in RegInputs : Quiet => ENABLED RegisterApi("warframe", config)
    /\ lastReg.done =>
          LET c == lastReg.config
              new == configs[lastReg.name]
          IN  /\ MapHas(configs, lastReg.name)
              /\ new.name = lastReg.name
              /\ [i \in 1..Len(new.endpoints) |-> new.endpoints[i].url]
                     = <<c.baseUrl>> \o c.fallbackUrls
              /\ \A i \in 1..Len(new.endpoints) :
                    /\ new.endpoints[i].timeout = c.timeout
                    /\ new.endpoints[i].retries = c.retries
                    /\ circuitBreakers[CircuitKey(lastReg.name, new.endpoints[i].url)]
                           = [failures |-> 0, lastFailure |-> 0, isOpen |-> FALSE]
              /\ new.defaultTimeout = GivenOr(c.timeout, 10000)
              /\ new.defaultRetries = GivenOr(c.retries, 3)
              /\ new.circuitBreakerThreshold = GivenOr(c.circuitBreakerThreshold, 5)
              /\ new.circuitBreakerResetTime = GivenOr(c.circuitBreakerResetTime, 60000)
    /\ \A p \in Procs :
          (req[p].pc # "idle" /\ MapHas(configs, req[p].apiName))
              => req[p].config = configs[req[p].apiName]

\* a re-registration with another endpoint list, threshold and reset time, made
\* while breakers of the new list were open or had counted failures
C11_Witness ==
    /\ lastReg.done
    /\ MapHas(lastReg.configs, lastReg.name)
    /\ lastReg.configs[lastReg.name].endpoints # configs[lastReg.name].endpoints
    /\ lastReg.configs[lastReg.name].circuitBreakerThreshold
           # configs[lastReg.name].circuitBreakerThreshold
    /\ \E i, j \in 1..Len(configs[lastReg.name].endpoints) :
          LET ki == CircuitKey(lastReg.name, configs[lastReg.name].endpoints[i].url)
              kj == CircuitKey(lastReg.name, configs[lastReg.name].endpoints[j].url)
          IN  /\ MapHas(lastReg.circuitBreakers, ki) /\ lastReg.circuitBreakers[ki].isOpen
              /\ MapHas(lastReg.circuitBreakers, kj)
              /\ ~lastReg.circuitBreakers[kj].isOpen
              /\ lastReg.circuitBreakers[kj].failures > 0

(***************************************************************************)
(* C12. At most one recovery pass runs at any time: a handleError call     *)
(* that arrives while a pass is in progress returns without evaluating a   *)
(* predicate and without running a recovery action, changes nothing, and   *)
(* is not queued: nothing is ever run for it later.                        *)
(***************************************************************************)
Running(h) == erCall[h].pc = "running"

C12_OneRecoveryPass ==
    [][/\ Cardinality({h \in Handlers : erCall'[h].pc = "running"}) <= 1
       /\ \A h \in Handlers :
             \* a call that arrives during a pass is dropped and changes nothing
             /\ (erCall[h].pc = "idle" /\ erCall'[h].pc # "idle"
                    /\ \E g \in Handlers \ {h} : Running(g))
                   => /\ erCall'[h].pc = "dropped"
                      /\ ~erCall'[h].evaluated
                      /\ erCall'[h].applicable = <<>> /\ erCall'[h].ran = <<>>
                      /\ isRecovering' = isRecovering
                      /\ recoveryHistory' = recoveryHistory
                      /\ \A g \in Handlers \ {h} : erCall'[g] = erCall[g]
             \* a dropped call is never taken up again
             /\ erCall[h].pc = "dropped" => erCall'[h] \in {erCall[h], IdleCall}
       \* every action that is run belongs to the one pass in progress
       /\ recoveryHistory' # recoveryHistory /\ recoveryHistory' # <<>>
             => \E h \in Handlers :
                   /\ Running(h)
                   /\ Len(erCall'[h].ran) = Len(erCall[h].ran) + 1
                   /\ recoveryHistory'[Len(recoveryHistory')].error
                          = MessageOf(erCall[h].error)]_vars

\* a call was dropped while a pass had run one action and was waiting for the next;
\* the dropped call's error has applicable actions
C12_Witness ==
    \E h, g \in Handlers :
        /\ Running(h) /\ Len(erCall[h].ran) >= 1
        /\ erCall[g].pc = "dropped"
        /\ erCall[g].error.hasMessage
        /\ FilterActions(recoveryActions, erCall[g].error, FALSE).list # <<>>

(***************************************************************************)
(* C13. A recovery pass runs every recovery action whose predicate accepts *)
(* the triggering error, each exactly once, in ascending priority order,   *)
(* whatever the order in which the actions were added; an action that      *)
(* throws does not stop the actions after it from running.                 *)
(***************************************************************************)
\* positions in the action list, as it was when the pass began, of the actions whose
\* predicate accepts the error
Accepted(c) ==
    {i \in 1..Len(c.known) : Condition(c.known[i].cond, c.error, c.heapHigh) = "true"}

\* what the pass of call c has run so far are accepted actions, in ascending
\* priority, none twice; a pass that has ended has run every accepted action
RunsAcceptedInOrder(c) ==
    /\ \A j \in 1..Len(c.ran) :
          \E i \in Accepted(c) : c.known[i].name = c.ran[j].name
    /\ \A j, k \in 1..Len(c.ran) :
          j < k => /\ c.ran[j].priority <= c.ran[k].priority
                   /\ c.ran[j].name # c.ran[k].name
    /\ c.pc \in {"done", "threw"} =>
          /\ Len(c.ran) = Cardinality(Accepted(c))
          /\ \A i \in Accepted(c) :
                \E j \in 1..Len(c.ran) : c.ran[j].name = c.known[i].name

\* C13: every recovery pass (a handleError call that was not dropped) runs the
\* actions whose predicate accepts the error, each exactly once, in ascending
\* priority order, whether actions before them throw or not.
C13_PassRunsApplicableInOrder ==
    \A h \in Handlers :
        erCall[h].pc \in {"running", "done", "threw"} => RunsAcceptedInOrder(erCall[h])

\* the same for the passes in which every predicate has returned
C13_EvaluatedPassRunsInOrder ==
    \A h \in Handlers :
        (erCall[h].pc \in {"running", "done"} /\ erCall[h].evaluated) =>
            RunsAcceptedInOrder(erCall[h])

\* four actions ran; custom_tie was added after the default actions (it stands behind
\* memory_cleanup of equal priority) and yet before file_system_recovery in the list;
\* memory_cleanup threw and custom_tie still ran
C13_Witness ==
    \E h \in Handlers :
        LET c == erCall[h]
        IN  /\ c.pc = "done"
            /\ [j \in 1..Len(c.ran) |-> c.ran[j].name]
                   = <<"custom_first", "discord_reconnect", "memory_cleanup", "custom_tie">>
            /\ ~c.ran[3].success /\ c.ran[4].success
            /\ Len(c.known) = 5 /\ c.known[5].name = "file_system_recovery"

(***************************************************************************)
(* C14. performHealthCheck classifies the overall status by the worst of   *)
(* its five checks: unhealthy iff at least one check is unhealthy,         *)
(* degraded iff none is unhealthy and at least one is degraded, healthy    *)
(* iff every check is healthy; and the result it returns is the one stored *)
(* as the last health check.                                               *)
(***************************************************************************)
StatusesOf(result) == {result.checks[i].status : i \in 1..Len(result.checks)}

C14_WorstOfChecks ==
    \A k \in Checkers :
        hcCall[k].pc = "done" =>
            LET r == hcCall[k].result
            IN  /\ [i \in 1..Len(r.checks) |-> r.checks[i].name]
                       = <<"discord_connection", "file_system", "external_apis",
                           "memory_usage", "disk_space">>
                /\ StatusesOf(r) \subseteq {"healthy", "degraded", "unhealthy"}
                /\ r.overall = "unhealthy" <=> "unhealthy" \in StatusesOf(r)
                /\ r.overall = "degraded" <=>
                      ("unhealthy" \notin StatusesOf(r) /\ "degraded" \in StatusesOf(r))
                /\ r.overall = "healthy" <=> StatusesOf(r) = {"healthy"}
                /\ lastCheck = r

\* a health check that found an open breaker (external_apis unhealthy) next to a
\* degraded Discord connection and a healthy file system
C14_Witness ==
    \E k \in Checkers :
        /\ hcCall[k].pc = "done"
        /\ hcCall[k].result.checks[3].status = "unhealthy"
        /\ hcCall[k].result.checks[1].status = "degraded"
        /\ hcCall[k].result.checks[2].status = "healthy"
        /\ hcCall[k].result.overall = "unhealthy"
        /\ hcCall[k].result.timestamp > 0

\* C15: however many config-store calls overlap before the config is loaded,
\* the config file is read at most once, and every one of those calls goes on
\* with the loaded configuration: none of them finds a null config and none of
\* them ends without one.
C15_SingleReadSameConfig ==
    /\ cmReads <= 1
    /\ \A c \in CallerSet :
          cmCall[c].early => cmCall[c].load \in {"none", "config"}

\* the part of C15 that the code keeps: one read, and no caller ever sees null
C15_SingleReadNeverNull ==
    /\ cmReads <= 1
    /\ \A c \in CallerSet : cmCall[c].load # "null"
    /\ \A c \in CallerSet :
          cmCall[c].early /\ cmCall[c].load = "config" => ~cmConfig.isNull

\* the guilds object initializeGuildDefaults has to leave: the entries of the
\* guilds the bot is in, with the disabled default where there was none
ExpectedDefaults(before, bg) ==
    [g \in bg |-> IF MapHas(before, g) THEN before[g] ELSE DefaultEntry]

\* C17: once the guildDelete handler for a guild has completed (and the guild
\* has not joined again), and when initializeGuildDefaults has completed, the
\* config holds no entry for a guild the bot is not in; and the step in which
\* initializeGuildDefaults goes over the config leaves exactly the entries of
\* the present guilds, new ones with the disabled default, the others as they
\* were.
C17_LeftGuildsRemoved ==
    /\ [](\A g \in cmLeft \ botGuilds : ~MapHas(cmConfig.guilds, g))
    /\ [](\A c \in CallerSet :
            cmCall[c].op = "init" /\ cmCall[c].pc = "done" =>
                \A g \in Guilds \ botGuilds : ~MapHas(cmConfig.guilds, g))
    /\ [][\A c \in CallerSet :
            cmCall'[c].op = "init" /\ cmCall'[c].load = "config" /\ cmCall[c].load # "config" =>
                cmConfig'.guilds = ExpectedDefaults(cmCall'[c].before, botGuilds')]_vars

\* C16: a fetch for an endpoint made less than 60000 ms after the latest
\* successful fetch of that endpoint returns the cached data of that fetch and
\* makes no network call; and a fetch whose network call fails although a
\* response for the endpoint was cached when the fetch was made returns that
\* cached response, not the error.
C16_CacheForSixtySeconds ==
    [][\A w \in WfProcs :
        /\ (wfCall[w].pc = "idle" /\ wfCall'[w].pc # "idle") =>
              LET last == wfLastOk[wfCall'[w].endpoint] IN
              (last.has /\ now - last.timestamp < 60000) =>
                  /\ wfCall'[w].pc = "done"
                  /\ wfCall'[w].result = last.data
                  /\ wfCall'[w].network = "none"
        /\ (wfCall[w].pc = "fetching" /\ wfCall'[w].network = "failed"
              /\ wfCall[w].cached.has) =>
              /\ wfCall'[w].pc = "done"
              /\ wfCall'[w].result = wfCall[w].cached.data]_vars

\* a fetch that found a response cached 60 s or more before has made a network
\* call, which failed, and has returned that response; a fetch for the other
\* endpoint, made 30 s after its latest successful fetch, was served from the
\* cache
C16_Witness ==
    /\ wfCall["w1"].pc = "done" /\ wfCall["w1"].network = "failed"
    /\ wfCall["w1"].endpoint = "/fissures"
    /\ wfCall["w1"].cached.has /\ now - wfCall["w1"].cached.timestamp >= SHARED_CACHE_DURATION
    /\ wfCall["w1"].result = wfCall["w1"].cached.data
    /\ wfCall["w2"].pc = "done" /\ wfCall["w2"].network = "none"
    /\ wfCall["w2"].endpoint = "/nightwave"
    /\ now - wfLastOk["/nightwave"].timestamp = WfTickMs
    /\ wfCall["w2"].result = wfLastOk["/nightwave"].data

\* the breaker under key k was open and is closed by this step
Closes(k) ==
    /\ req' # req
    /\ circuitBreakers[k].isOpen /\ ~circuitBreakers'[k].isOpen

\* this step holds a consultation of breaker k by request at which the breaker
\* was open and now - lastFailure > resetMs
LazyResetOf(k) ==
    \E p \in Procs : \E i \in (Len(req[p].log) + 1)..Len(req'[p].log) :
        LET r == req'[p]
            ev == r.log[i]
        IN  /\ ev.kind = "fetch" /\ ev.attempt = 0 /\ ev.at = now
            /\ CircuitKey(r.apiName, r.config.endpoints[ev.ep].url) = k
            /\ ev.pre.isOpen
            /\ ev.at - ev.pre.lastFailure > r.config.circuitBreakerResetTime

\* this step is the successful outcome of a network call to the endpoint of
\* breaker k
SuccessOf(k) ==
    \E p \in Procs :
        /\ req[p].pc = "fetch" /\ req'[p].pc = "done" /\ req'[p].lastOut \in Payloads
        /\ CircuitKey(req[p].apiName, req[p].config.endpoints[req[p].idx].url) = k

\* C18 as stated: in a step of request (no re-registration), an open breaker
\* becomes closed only by the lazy reset, a consultation by request with
\* now - lastFailureAt > resetMs, and its failure count is zero after that step;
\* also when request calls overlap.
C18_ClosedOnlyByLazyReset ==
    [][\A k \in DOMAIN circuitBreakers :
        Closes(k) => LazyResetOf(k) /\ circuitBreakers'[k].failures = 0]_vars

\* C18 amended: an open breaker becomes closed only by the lazy reset or by the
\* successful outcome of a network call to its endpoint, and its failure count
\* is zero after either.
C18_ClosedByLazyResetOrSuccess ==
    [][\A k \in DOMAIN circuitBreakers :
        Closes(k) => /\ LazyResetOf(k) \/ SuccessOf(k)
                     /\ circuitBreakers'[k].failures = 0]_vars

\* a request has found breaker u1 open after its reset time, has closed it and
\* has issued a network call, while another request is in flight
C18_Witness ==
    /\ req["p1"].pc = "fetch" /\ req["p2"].pc = "fetch"
    /\ req["p2"].config.endpoints[req["p2"].idx].url = "u1"
    /\ req["p2"].log[Len(req["p2"].log)].kind = "fetch"
    /\ req["p2"].log[Len(req["p2"].log)].attempt = 0
    /\ req["p2"].log[Len(req["p2"].log)].pre.isOpen
    /\ req["p2"].log[Len(req["p2"].log)].pre.failures > 0
    /\ ~circuitBreakers["warframe:u1"].isOpen
    /\ circuitBreakers["warframe:u1"].failures = 0

\* in the history of one request call, endpoint j was dealt with before entry i:
\* skipped, or failed on the attempt that exhausts its retries
DealtWith(r, j, i) ==
    \E m \in 1..(i - 1) :
        /\ r.log[m].ep = j
        /\ \/ r.log[m].kind = "skip" /\ r.log[m].pre.isOpen
           \/ /\ r.log[m].kind = "fetch" /\ r.log[m].out = "fail"
              /\ r.log[m].attempt = EffectiveRetries(r.config.endpoints[j], r.config)

\* C19: the endpoint list built by registerApi has the primary URL at priority 1
\* and the fallback URLs at priorities 2..N in input order; a request call
\* issues a network call to an endpoint only after every endpoint of higher
\* priority was, in that call, skipped for its open breaker or failed with its
\* retries exhausted; and no network call follows one that succeeded.
C19_AscendingPriorityWalk ==
    /\ \A name \in DOMAIN configs : \A i \in 1..Len(configs[name].endpoints) :
          configs[name].endpoints[i].priority = i
    /\ lastReg.done =>
          LET eps == configs[lastReg.name].endpoints IN
          /\ Len(eps) = 1 + Len(lastReg.config.fallbackUrls)
          /\ eps[1].url = lastReg.config.baseUrl
          /\ \A i \in 1..Len(lastReg.config.fallbackUrls) :
                eps[i + 1].url = lastReg.config.fallbackUrls[i]
    /\ \A p \in Procs : \A i \in 1..Len(req[p].log) :
          LET r == req[p] IN
          r.log[i].kind = "fetch" =>
              /\ \A j \in 1..Len(r.config.endpoints) :
                    r.config.endpoints[j].priority < r.config.endpoints[r.log[i].ep].priority
                        => DealtWith(r, j, i)
              /\ \A m \in 1..(i - 1) : r.log[m].kind = "fetch" => r.log[m].out = "fail"

\* a call over three endpoints has skipped the first for its open breaker, has
\* failed on the second with its retries exhausted and has succeeded on the third
C19_Witness ==
    LET r == req["p1"] IN
    /\ r.pc = "done" /\ Len(r.config.endpoints) = 3 /\ Len(r.log) = 5
    /\ r.log[1].kind = "skip" /\ r.log[1].ep = 1
    /\ r.log[2].kind = "fetch" /\ r.log[2].ep = 2 /\ r.log[2].out = "fail"
    /\ r.log[4].kind = "fetch" /\ r.log[4].ep = 2 /\ r.log[4].out = "fail"
    /\ r.log[4].attempt = 1
    /\ r.log[5].kind = "fetch" /\ r.log[5].ep = 3 /\ r.log[5].out = "ok"

\* the breaker keys that the endpoint list of a configuration leads to
KeysOf(apiName, config) ==
    {CircuitKey(apiName, config.endpoints[i].url) : i \in 1..Len(config.endpoints)}

\* C20: every endpoint of every registered API has a breaker state under
\* (apiName, endpoint URL), which is what getHealthStatus looks up; every
\* endpoint of the configuration a request call works with has one too, also
\* when the API was re-registered with another endpoint list while the call was
\* in flight; and no step removes a breaker state.
C20_BreakerStateAlwaysThere ==
    /\ [](\A name \in DOMAIN configs :
            KeysOf(name, configs[name]) \subseteq DOMAIN circuitBreakers)
    /\ [](\A p \in Procs :
            InFlight(p) => KeysOf(req[p].apiName, req[p].config) \subseteq DOMAIN circuitBreakers)
    /\ [][DOMAIN circuitBreakers \subseteq DOMAIN circuitBreakers']_vars

\* a request call is in flight on the endpoint list registered at startup while
\* the API is registered with another list, and the other call works with that
\* new list
C20_Witness ==
    /\ req["p1"].pc = "sleep" /\ req["p2"].pc = "fetch"
    /\ req["p1"].config # configs["warframe"]
    /\ KeysOf("warframe", req["p1"].config) \cap KeysOf("warframe", configs["warframe"]) = {}
    /\ req["p2"].config = configs["warframe"]
    /\ lastReg = NoReg

\* this step is the success of a network call of a request with cacheTtl > 0
\* for cache key k
StoresUnder(k) ==
    \E p \in Procs :
        /\ req[p].pc = "fetch" /\ req'[p].pc = "done"
        /\ req'[p].lastOut \in Payloads /\ req[p].cacheTtl > 0
        /\ k = CacheKey(req[p].apiName, req[p].path)
        /\ cache'[k] = [data |-> req'[p].lastOut, timestamp |-> now, ttl |-> req[p].cacheTtl]

\* a cache entry is created or overwritten only by the success of a network
\* call of a request with cacheTtl > 0, and then holds that call's payload,
\* time and ttl; every other step of request leaves the cache as it is; an
\* entry disappears only in a step that is no step of request, registerApi or
\* the clock (clearCache)
CacheWrittenOnlyBySuccess ==
    [][\A k \in DOMAIN cache \cup DOMAIN cache' :
            /\ (k \in DOMAIN cache' /\ (k \notin DOMAIN cache \/ cache'[k] # cache[k]))
                  => StoresUnder(k)
            /\ (k \in DOMAIN cache /\ k \notin DOMAIN cache')
                  => req' = req /\ configs' = configs /\ now' = now
                     /\ circuitBreakers' = circuitBreakers]_vars

\* the call has issued no network call
Unattempted(r) == \A m \in 1..Len(r.log) : r.log[m].kind = "skip"

\* no network call of the call has succeeded: what it returns is the cache entry
FromFallback(r) == \A m \in 1..Len(r.log) : r.log[m].out # "ok"

\* the entry under the call's key was fresh when the call began
FreshAtStart(r) ==
    LET k == CacheKey(r.apiName, r.path)
    IN  MapHas(r.startCache, k) /\ r.startNow - r.startCache[k].timestamp < r.startCache[k].ttl

\* C21 as stated: the cache is written only by the success of a request with
\* cacheTtl > 0, which stores its payload, time and ttl, every other step of
\* request leaves the cache unchanged and only clearCache removes an entry;
\* and a request with cacheTtl = 0 is never answered from a fresh entry
\* without a network attempt.
C21_Ttl0NeverFromFreshUnattempted ==
    /\ CacheWrittenOnlyBySuccess
    /\ [](\A p \in Procs :
            (req[p].pc = "done" /\ req[p].cacheTtl = 0 /\ Unattempted(req[p]))
                => ~FreshAtStart(req[p]))

\* C21, amended: the cache is written only by the success of a request with
\* cacheTtl > 0, which stores its payload, time and ttl, every other step of
\* request leaves the cache unchanged and only clearCache removes an entry;
\* a request with cacheTtl = 0 never takes the fresh-entry shortcut: it
\* consults the endpoints, and when it is answered from the cache every
\* endpoint was skipped for its open breaker or failed with its retries
\* exhausted (without any network attempt when every breaker is open, the
\* entry being fresh or not).
C21_CacheWrittenOnlyBySuccess ==
    /\ CacheWrittenOnlyBySuccess
    /\ [](\A p \in Procs :
            (req[p].pc = "done" /\ req[p].cacheTtl = 0) =>
                /\ req[p].log # <<>>
                /\ FromFallback(req[p]) =>
                      \A j \in 1..Len(req[p].config.endpoints) :
                          DealtWith(req[p], j, Len(req[p].log) + 1))

\* a request with cacheTtl = 0 has found every breaker open and has been
\* answered, without a network call, from an entry that was still fresh
C21_Witness ==
    \E p \in Procs :
        /\ req[p].pc = "done" /\ req[p].cacheTtl = 0
        /\ req[p].log # <<>> /\ Unattempted(req[p])
        /\ FreshAtStart(req[p])
        /\ req[p].result = req[p].startCache[CacheKey(req[p].apiName, req[p].path)].data

\* a request with cacheTtl > 0 has succeeded over the network and has replaced
\* an entry that held another payload, another time and another ttl
C21_EntryOverwritten ==
    LET r == req["p1"]
        k == CacheKey(r.apiName, r.path)
    IN  /\ r.pc = "done" /\ r.lastOut \in Payloads /\ r.cacheTtl > 0
        /\ MapHas(r.startCache, k) /\ MapHas(cache, k)
        /\ cache[k] = [data |-> r.lastOut, timestamp |-> now, ttl |-> r.cacheTtl]
        /\ r.startCache[k].data # cache[k].data
        /\ r.startCache[k].ttl # cache[k].ttl
        /\ r.startCache[k].timestamp < now

\* C22: in every reachable state, what cleanup() does there is: every window
\* whose reset time has passed (now >= resetTime) is gone afterwards, every
\* other window is there with the same count and reset time, no window is
\* added, and the registered policies are the same.
C22_CleanupDeletesExpiredOnly ==
    ENABLED (/\ Cleanup
             /\ \A k \in DOMAIN limits :
                   IF now >= limits[k].resetTime
                   THEN k \notin DOMAIN limits'
                   ELSE k \in DOMAIN limits' /\ limits'[k] = limits[k]
             /\ DOMAIN limits' \subseteq DOMAIN limits
             /\ rlConfigs' = rlConfigs)

\* a window that has ended is gone from the limiter, which only cleanup() can
\* have done, and a window with two counted calls that was open at that time is
\* still there, not yet expired
C22_Witness ==
    \E k \in DOMAIN rlHist \ DOMAIN limits : \E k2 \in DOMAIN limits :
        /\ rlHist[k].ends <= now
        /\ MapHas(rlHist, k2) /\ rlHist[k2].ends = limits[k2].resetTime
        /\ now < limits[k2].resetTime
        /\ limits[k2].resetTime - rlHist[k2].policy.windowMs < rlHist[k].ends
        /\ limits[k2].count = 2

\* C28: a step of checkLimit (the record of the last call changes) that denies
\* the call leaves every window as it was, count and reset time; and a step of
\* checkLimit for (limitKey, identifier) leaves the window of every other
\* identifier and of every other limitKey as it was.
C28_DeniedCallChangesNothing ==
    [][rlLast' # rlLast =>
        LET key == LimitKeyOf(rlLast'.limitKey, rlLast'.identifier) IN
        /\ ~rlLast'.result.allowed => limits' = limits
        /\ \A k \in (DOMAIN limits \cup DOMAIN limits') \ {key} :
              k \in DOMAIN limits /\ k \in DOMAIN limits' /\ limits'[k] = limits[k]]_vars

\* the last call was denied, later than the first call of its window, while a
\* window of another identifier and a window of another limitKey are open; the
\* window of the denied call still ends where its first call put it
C28_Witness ==
    /\ rlLast.known /\ ~rlLast.result.allowed
    /\ rlLast.limitKey = "burst" /\ rlLast.identifier = "user1"
    /\ MapHas(limits, "burst:user2") /\ MapHas(limits, "command:user1")
    /\ now < limits["burst:user1"].resetTime
    /\ limits["burst:user1"].resetTime = rlHist["burst:user1"].ends
    /\ now > limits["burst:user1"].resetTime - rlConfigs["burst"].windowMs

\* C25: csrfProtection, called with the default options for a GET request that
\* carries no CSRF token cookie, sets a new token cookie on the reply and
\* reports the request as valid.
C25_GetIssuesToken ==
    (csLast.method = "GET" /\ csLast.options = "default" /\ ~csLast.hook
        /\ csLast.cookieToken = NoToken)
    => csLast.result.valid /\ csLast.result.setCookie \in CsTokens

\* what the code keeps of C25: such a call is reported as valid; and the client
\* of the server never holds a token, so each of its state-changing requests
\* that reaches csrfProtection outside the ignored paths is answered with 403
C25_ValidButNoToken ==
    /\ (csLast.method = "GET" /\ csLast.options = "default" /\ ~csLast.hook)
          => csLast.result.valid /\ csLast.result.setCookie = NoToken
    /\ csJar = NoToken
    /\ (csLast.hook /\ csLast.method \in {"POST", "DELETE"} /\ csLast.status # 429
          /\ ~StartsWith(csLast.url, "/health"))
          => csLast.status = 403

\* the calls of fn in the history of the activation
RbCallsOf(r) == {i \in 1..Len(r.log) : r.log[i].kind = "call"}

\* C23: retryWithBackoff calls fn at most maxRetries + 1 times (3 + 1 when
\* maxRetries is left out); once a call has succeeded its value is returned and
\* nothing follows it; when the call of attempt maxRetries fails, or a call
\* fails with an error that retryCondition rejects, that error is thrown at once,
\* with no wait and no call after it; and after the failed call of attempt a
\* that is retried, the wait is min(baseDelay * backoffMultiplier^a, maxDelay)
\* and the call of attempt a + 1 comes after that wait.
C23_BoundedRetry ==
    LET r == rbCall
        c == r.config
        n == Len(r.log)
    IN  /\ Cardinality(RbCallsOf(r)) <= c.maxRetries + 1
        /\ \A i \in 1..n :
              /\ (r.log[i].kind = "call" /\ r.log[i].out \in RbValues) =>
                    i = n /\ r.pc = "done" /\ r.result = r.log[i].out
              /\ (r.log[i].kind = "call" /\ r.log[i].out \in RbErrors
                     /\ (r.log[i].attempt = c.maxRetries
                          \/ ~retryCondition(c.retryCondition, r.log[i].out))) =>
                    i = n /\ r.pc = "threw" /\ r.error = r.log[i].out
              /\ r.log[i].kind = "wait" =>
                    /\ i > 1 /\ r.log[i - 1].kind = "call"
                    /\ r.log[i - 1].attempt = r.log[i].attempt
                    /\ r.log[i].delay =
                          Min(c.baseDelay * (c.backoffMultiplier ^ r.log[i].attempt), c.maxDelay)
              /\ (r.log[i].kind = "call" /\ i > 1) =>
                    /\ r.log[i - 1].kind = "wait"
                    /\ r.log[i].attempt = r.log[i - 1].attempt + 1
        /\ r.pc = "done" => n > 0 /\ r.log[n].out \in RbValues
        /\ r.pc = "threw" => n > 0 /\ r.log[n].kind = "call" /\ r.error = r.log[n].out

\* an activation with maxRetries 2, base delay 500, multiplier 3 and a cap of
\* 1200 has failed three times, has waited 500 and then 1200, and has thrown
\* the third error
C23_Witness ==
    /\ rbCall.pc = "threw" /\ rbCall.config.maxRetries = 2
    /\ Len(rbCall.log) = 5
    /\ rbCall.log[2].delay = 500 /\ rbCall.log[4].delay = 1200
    /\ rbCall.log[1].out = "E1" /\ rbCall.log[5].out = "E2" /\ rbCall.error = "E2"


(***************************************************************************)
(* bot_notification commands and the guild entries                          *)
(***************************************************************************)
\* enabled is true exactly when bot_notification is "enabled", and exactly when
\* channelid is non-empty
WellFormedEntry(e) ==
    /\ e.enabled <=> (e.bot_notification = "enabled")
    /\ e.enabled <=> (e.channelid # "")

\* the setGuildConfig call of the command of caller c goes on in this step and
\* changes the config
CommandChanges(c) ==
    /\ cmCall[c].pc = "checked" /\ cmCall'[c].pc # "checked"
    /\ cmConfig'.guilds # cmConfig.guilds

\* C30: with a well-formed config file to start from, every entry of the config
\* in memory and of the file is well-formed (enabled <=> bot_notification =
\* "enabled" <=> channelid non-empty) after any sequence of commands, joins,
\* leaves and initializeGuildDefaults; a command changes the entry of its own
\* guild only, add only when that entry is absent or disabled, edit and remove
\* only when it is enabled.
C30_EntriesWellFormed ==
    /\ [](/\ \A g \in DOMAIN cmConfig.guilds : WellFormedEntry(cmConfig.guilds[g])
          /\ \A g \in DOMAIN cmFile.guilds : WellFormedEntry(cmFile.guilds[g]))
    /\ [][\A c \in CallerSet :
            CommandChanges(c) =>
               LET g == cmCall[c].guildId
                   was == ExistingEnabled(cmConfig.guilds, g)
               IN  /\ \A x \in DOMAIN cmConfig.guilds \ {g} :
                         MapHas(cmConfig'.guilds, x) /\ cmConfig'.guilds[x] = cmConfig.guilds[x]
                   /\ DOMAIN cmConfig'.guilds = DOMAIN cmConfig.guilds \cup {g}
                   /\ cmConfig'.guilds[g] = cmCall[c].entry
                   /\ IF cmCall[c].op = "cmd_add" THEN ~was ELSE was]_vars

\* edit has moved an enabled entry to the other channel and remove has disabled
\* it, each written to the file
C30_Witness ==
    /\ cmWrites = 2
    /\ \E c \in CallerSet :
          /\ cmCall[c].op = "cmd_remove" /\ cmCall[c].pc = "done"
          /\ MapHas(cmCall[c].before, cmCall[c].guildId)
          /\ cmCall[c].before[cmCall[c].guildId] = EnabledOn("ch2")
          /\ MapHas(cmFile.guilds, cmCall[c].guildId)
          /\ cmFile.guilds[cmCall[c].guildId] = DefaultEntry


\* the command of caller c has returned from its setGuildConfig call without an
\* error, no write was pending together with one of its own, and no other
\* ConfigManager call is under way
SetReturnedAlone(c) ==
    /\ cmCall[c].op \in CommandOps /\ cmCall[c].result = "set"
    /\ cmCall[c].pc = "done" /\ cmCall[c].rivals = {}
    /\ \A o \in CallerSet \ {c} : cmCall[o].pc = "idle"

\* C27: whenever setGuildConfig(guildId, c) has returned without an error and no
\* other call overlaps, the configuration file holds c for guildId; also for a
\* call that repeats the values of an earlier call whose write failed.
C27_ReturnedSetIsOnDisk ==
    \A c \in CallerSet :
        SetReturnedAlone(c) =>
            /\ cmFile.exists
            /\ MapHas(cmFile.guilds, cmCall[c].guildId)
            /\ cmFile.guilds[cmCall[c].guildId] = cmCall[c].entry

\* the same for the calls that found something to change and wrote the file
C27_WrittenSetIsOnDisk ==
    \A c \in CallerSet :
        (SetReturnedAlone(c) /\ cmCall[c].snapshot # EmptyMap) =>
            /\ cmFile.exists
            /\ MapHas(cmFile.guilds, cmCall[c].guildId)
            /\ cmFile.guilds[cmCall[c].guildId] = cmCall[c].entry


\* the write of the command of caller c completes in this step, after a time
\* in which another write was pending together with it, and no write is
\* pending any more
LastWriteLands(c) ==
    /\ cmCall[c].op \in CommandOps
    /\ cmCall[c].pc = "saving" /\ cmCall'[c].pc = "done"
    /\ cmCall[c].rivals # {}
    /\ \A o \in CallerSet \ {c} : ~WritePending(cmCall[o])

\* C24: setGuildConfig calls are not serialized: a command updates the config
\* in memory while the write of another is pending. When the last of the
\* writes that were pending together has completed, the file holds the config
\* as the call of that last write left it in memory (its own entry included),
\* whichever call was made first; and nothing but a write changes the file.
C24_LastWriterWins ==
    /\ [][\A c \in CallerSet :
            LastWriteLands(c) =>
               /\ cmFile' = FileWith(cmCall[c].snapshot)
               /\ cmFile'.guilds[cmCall[c].guildId] = cmCall[c].entry]_vars
    /\ [][(cmReady /\ cmFile' # cmFile) =>
             \E c \in CallerSet :
                 /\ cmCall[c].pc \in {"saving", "loadsave"}
                 /\ cmCall'[c].pc # cmCall[c].pc]_vars


(***************************************************************************)
(* Breaker state and threshold                                              *)
(***************************************************************************)
\* the registerApi arguments that give the API the configuration it has
RegisteredAs(name) ==
    {config \in BreakerRegInputs \cup {StartupConfig} :
        BuildApiConfig(name, config) = configs[name]}

\* C26: for every breaker of an endpoint of a registered API, in every reachable
\* state of overlapping request calls, isOpen is true exactly when the failure
\* count is at least the effective threshold (the configured value, 5 when none
\* or 0 is configured), the API not being re-registered with another threshold
\* while one of its requests is in flight.
C26_OpenIffThresholdReached ==
    \A name \in DOMAIN configs :
        /\ RegisteredAs(name) # {}
        /\ \A config \in RegisteredAs(name), k \in KeysOf(name, configs[name]) :
              LET threshold == IF config.circuitBreakerThreshold \in {Undefined, 0}
                               THEN 5 ELSE config.circuitBreakerThreshold
              IN  circuitBreakers[k].isOpen <=> (circuitBreakers[k].failures >= threshold)

\* a request that was in flight when another one opened the breaker has failed
\* as well: the breaker is open with more failures than the threshold
C26_Witness ==
    /\ configs["warframe"].circuitBreakerThreshold = 2
    /\ circuitBreakers["warframe:u1"].isOpen
    /\ circuitBreakers["warframe:u1"].failures = 3
    /\ \E p \in Procs : req[p].pc = "thrown"


(***************************************************************************)
(* The recovery flag is released                                            *)
(***************************************************************************)
\* C29: the recovery-in-progress flag is always released. The flag is set only
\* while a pass is waiting for one of its actions, so it is clear when a
\* handleError call has ended, whether no action applied, an action threw or a
\* predicate threw; a call is dropped only while such a pass is under way; and
\* with every action terminating, a flag that is set is cleared later.
C29_FlagReleased ==
    /\ [](isRecovering <=> \E h \in Handlers : Running(h))
    /\ [][\A h \in Handlers :
             (erCall[h].pc = "idle" /\ erCall'[h].pc = "dropped")
                 => \E g \in Handlers \ {h} : Running(g)]_vars
    /\ (isRecovering ~> ~isRecovering)

\* a pass whose action threw has ended; the next call was not dropped, a
\* predicate threw in it, and the flag is clear again
C29_Witness ==
    /\ ~isRecovering
    /\ recoveryHistory # <<>> /\ ~recoveryHistory[Len(recoveryHistory)].success
    /\ \E h \in Handlers :
          /\ erCall[h].pc = "threw"
          /\ FilterActions(erCall[h].known, erCall[h].error, erCall[h].heapHigh).threw

====
